---- MODULE Spec2Model ----
(***************************************************************************)
(* Model of the arXiv registry engine (scripts/arxiv_registry.py): the     *)
(* SQLite store (works, authors, work_authors, searches, search_results,   *)
(* fetches, schema_meta), upsert_work, the search cache and the commands   *)
(* that drive them.  Text is modelled as sequences of one-character        *)
(* strings where the code inspects characters, and as opaque strings       *)
(* where it only stores and compares them.                                 *)
(***************************************************************************)
EXTENDS Integers, Sequences, FiniteSets, TLC

VARIABLES db, tx, pc, loc, out, now, tz, bib, lock

vars == <<db, tx, pc, loc, out, now, tz, bib, lock>>

\* SQL NULL / Python None for text-valued columns and fields.
NULL == "null"

(***************************************************************************)
(* Bounds of the model.                                                    *)
(***************************************************************************)
\* most rows the searches table may hold
MaxSearches == 2
\* most rows the fetches table may hold
MaxFetches == 2
\* most fragments of a free-form identifier argument
MaxFragments == 3
\* most pieces of a citation text
MaxPieces == 4
\* most rows the fetches table may hold when citation texts are fetched
MaxBibFetches == 2
\* most texts the destination file may hold
MaxBibEntries == 2

\* rows of the fetch log in SpecRefresh
MaxRefreshFetches == 3

\* --timeout-s in SpecLock, in seconds
timeout_s == 2

\* bytes of a response that SpecLock tells apart
MaxBytes == 2

\* PRAGMA busy_timeout = 5000, in seconds
busy_timeout == 5
\* last instant of the clock (seconds since the first invocation)
MaxTime == 2

(***************************************************************************)
(* Text helpers (Python str methods and the regular expressions used).     *)
(***************************************************************************)
IsSpace(c) == c \in {" ", "\t", "\n"}

IsDigit(c) == c \in {"0", "1", "2", "3", "4", "5", "6", "7", "8", "9"}

UpperLetters ==
  <<"A", "B", "C", "D", "E", "F", "G", "H", "I", "J", "K", "L", "M",
    "N", "O", "P", "Q", "R", "S", "T", "U", "V", "W", "X", "Y", "Z">>

LowerLetters ==
  <<"a", "b", "c", "d", "e", "f", "g", "h", "i", "j", "k", "l", "m",
    "n", "o", "p", "q", "r", "s", "t", "u", "v", "w", "x", "y", "z">>

\* str.lower() of the capital letters; "<U+00DC>" is the capital U with
\* diaeresis
LowerOf ==
  [c \in {UpperLetters[i] : i \in 1..26} \cup {"<U+00DC>"} |->
     IF c = "<U+00DC>" THEN "<U+00FC>"
     ELSE LowerLetters[CHOOSE i \in 1..26 : UpperLetters[i] = c]]

\* str.lower() of one character
Lower(c) == IF c \in DOMAIN LowerOf THEN LowerOf[c] ELSE c

RECURSIVE LStrip(_)
LStrip(s) == IF s # <<>> /\ IsSpace(Head(s)) THEN LStrip(Tail(s)) ELSE s

RECURSIVE RStrip(_)
RStrip(s) ==
  IF s # <<>> /\ IsSpace(s[Len(s)]) THEN RStrip(SubSeq(s, 1, Len(s) - 1)) ELSE s

\* str.strip()
Strip(s) == RStrip(LStrip(s))

\* str.rstrip("/")
RECURSIVE RStripSlash(_)
RStripSlash(s) ==
  IF s # <<>> /\ s[Len(s)] = "/" THEN RStripSlash(SubSeq(s, 1, Len(s) - 1)) ELSE s

StartsWithAt(s, sub, i) ==
  /\ i + Len(sub) - 1 <= Len(s)
  /\ \A k \in 1..Len(sub) : s[i + k - 1] = sub[k]

\* index of the first occurrence of sub in s, 0 when there is none (str.find + 1)
Find(s, sub) ==
  LET hits == {i \in 1..Len(s) : StartsWithAt(s, sub, i)}
  IN IF hits = {} THEN 0 ELSE CHOOSE i \in hits : \A j \in hits : i <= j

\* s.split(sub, 1)[0]
SplitHead(s, sub) ==
  IF Find(s, sub) = 0 THEN s ELSE SubSeq(s, 1, Find(s, sub) - 1)

\* s.split(sub, 1)[1], used only when sub occurs in s
SplitTail(s, sub) == SubSeq(s, Find(s, sub) + Len(sub), Len(s))

EndsWith(s, sub) ==
  Len(sub) <= Len(s) /\ StartsWithAt(s, sub, Len(s) - Len(sub) + 1)

\* the fragments of a list, one after the other
RECURSIVE Concat(_)
Concat(list) == IF list = <<>> THEN <<>> ELSE Head(list) \o Concat(Tail(list))

\* re.sub(r"^arxiv:\s*", "", raw, flags=re.IGNORECASE)
StripScheme(s) ==
  LET p == <<"a", "r", "x", "i", "v", ":">>
  IN IF Len(s) >= Len(p) /\ \A k \in 1..Len(p) : Lower(s[k]) = p[k]
     THEN LStrip(SubSeq(s, Len(p) + 1, Len(s)))
     ELSE s

\* length of the run of digits that ends s
RECURSIVE TrailingDigits(_)
TrailingDigits(s) ==
  IF s # <<>> /\ IsDigit(s[Len(s)])
  THEN 1 + TrailingDigits(SubSeq(s, 1, Len(s) - 1))
  ELSE 0

\* the version suffix is kept
StripVersion_keep(s) == s

\* re.sub(r"v\d+$", "", raw)
StripVersion(s) ==
  LET d == TrailingDigits(s)
  IN IF d > 0 /\ d < Len(s) /\ s[Len(s) - d] = "v"
     THEN SubSeq(s, 1, Len(s) - d - 1)
     ELSE s

\* normalize_arxiv_id: <<base_id, versioned_id>>
NormalizeArxivId(value) ==
  LET r1 == StripScheme(Strip(value))
      r2 == RStripSlash(SplitHead(r1, <<"?">>))
      r3 == IF Find(r2, <<"/", "a", "b", "s", "/">>) # 0
            THEN SplitTail(r2, <<"/", "a", "b", "s", "/">>) ELSE r2
      r4 == IF Find(r3, <<"/", "p", "d", "f", "/">>) # 0
            THEN SplitTail(r3, <<"/", "p", "d", "f", "/">>) ELSE r3
      r5 == IF EndsWith(r4, <<".", "p", "d", "f">>)
            THEN SubSeq(r4, 1, Len(r4) - 4) ELSE r4
      raw == Strip(r5)
  IN <<StripVersion(raw), raw>>

(***************************************************************************)
(* Remote responses.  A response body is kept as the decoded content of    *)
(* its markup: whether it is well formed, the text of the summary          *)
(* counters, and one raw entry per atom:entry.  A raw entry is the text of *)
(* atom:id, the DOI text and two selectors that expand into the other      *)
(* elements of the entry.                                                  *)
(***************************************************************************)
\* the volatile elements of an entry (overwritten by every upsert).  Three
\* selectors stand for one title with a letter outside ASCII: "accent" is the
\* title as written, "replaced" the title with U+FFFD in the place of the
\* letter, "mojibake" the title with the three Latin-1 characters that the
\* UTF-8 bytes of U+FFFD spell.
Volatile(v) ==
  IF v = "full"
  THEN [title |-> "t1", summary |-> "s1", published |-> "2023-05-01",
        updated |-> "2023-06-01", primary_category |-> "cs.LG",
        categories |-> <<"cs.LG", "cs.AI">>, authors |-> <<"x", "y">>]
  ELSE [title |-> CASE v = "accent" -> "Caf<U+00E9>"
                    [] v = "replaced" -> "Caf<U+FFFD>"
                    [] v = "mojibake" -> "Caf<U+00EF><U+00BF><U+00BD>"
                    [] OTHER -> "t2",
        summary |-> NULL, published |-> NULL,
        updated |-> NULL, primary_category |-> NULL,
        categories |-> <<>>, authors |-> <<"y", "", "y", "x">>]

\* the optional elements of an entry that an upsert coalesces
Optional(o) ==
  IF o = "set"
  THEN [comment |-> "c1", journal_ref |-> "j1", abs_url |-> "u1", pdf_url |-> "p1"]
  ELSE [comment |-> NULL, journal_ref |-> NULL, abs_url |-> NULL, pdf_url |-> NULL]

\* the text of atom:id of the entries the remote may return
AbsUrl(id) == <<"/", "a", "b", "s", "/">> \o id

EntryIds == {AbsUrl(<<"1", "v", "1">>), AbsUrl(<<"1", "v", "2">>), AbsUrl(<<"2", "v", "1">>)}

Dois == {NULL, "d1", "d2"}

\* a full record carries every optional element, a sparse one none of them
RawEntries ==
  {e \in [id : EntryIds, v : {"full", "sparse"}, opt : {"set", "none"}, doi : Dois] :
     (e.v = "full") <=> (e.opt = "set")}

\* a raw entry that spells out its title, published date and author names
TextEntry(id, authors, published, title) ==
  [id |-> AbsUrl(id \o <<"v", "1">>), v |-> "sparse", opt |-> "none", doi |-> NULL,
   text |-> [title |-> title, published |-> published, authors |-> authors]]

\* xml_text(node) or "" and friends are already applied in Volatile/Optional;
\* the loop over atom:author keeps the non-empty names
RECURSIVE NonEmptyNames(_)
NonEmptyNames(names) ==
  IF names = <<>> THEN <<>>
  ELSE IF Head(names) = "" THEN NonEmptyNames(Tail(names))
       ELSE <<Head(names)>> \o NonEmptyNames(Tail(names))

\* one record of parse_arxiv_feed
ParseEntry(e) ==
  LET versioned == NormalizeArxivId(e.id)[2]
      vol == IF "text" \in DOMAIN e
             THEN [Volatile(e.v) EXCEPT !.title = e.text.title,
                                        !.published = e.text.published,
                                        !.authors = e.text.authors]
             ELSE Volatile(e.v)
      opt == Optional(e.opt)
  IN [arxiv_id |-> NormalizeArxivId(versioned)[1],
      arxiv_id_versioned |-> versioned,
      title |-> vol.title,
      summary |-> vol.summary,
      published |-> vol.published,
      updated |-> vol.updated,
      comment |-> opt.comment,
      journal_ref |-> opt.journal_ref,
      doi |-> e.doi,
      primary_category |-> vol.primary_category,
      categories |-> vol.categories,
      abs_url |-> opt.abs_url,
      pdf_url |-> opt.pdf_url,
      authors |-> NonEmptyNames(vol.authors)]

\* parse_arxiv_feed of a well-formed body: <<meta, entries>>
parse_arxiv_feed(body) ==
  <<[updated |-> body.updated, total_results |-> body.total_results,
     items_per_page |-> body.items_per_page, start_index |-> body.start_index],
    [i \in 1..Len(body.entries) |-> ParseEntry(body.entries[i])]>>

\* a well-formed response body with these counter texts and raw entries,
\* written in UTF-8 (enc is the encoding the XML declaration names)
Feed(counters, entries) ==
  [kind |-> "feed", enc |-> "utf-8", updated |-> "2024-01-01",
   total_results |-> counters.total_results,
   items_per_page |-> counters.items_per_page,
   start_index |-> counters.start_index, entries |-> entries]

\* b"" (transport failure, or an empty reply)
EmptyBody == [Feed([total_results |-> <<>>, items_per_page |-> <<>>,
                    start_index |-> <<>>], <<>>) EXCEPT !.kind = "empty"]

\* bytes that ET.fromstring rejects with ParseError
MalformedBody == [EmptyBody EXCEPT !.kind = "malformed"]

\* a parser that accepts every body
ParseError_lenient(body) == FALSE

\* ET.fromstring(xml_bytes) raises ParseError
ParseError(body) == body.kind = "malformed"

\* len(body): 0 for b"", the number of characters of a citation text, and a
\* size that grows with the entries of a feed
BodyLen(body) ==
  IF body.kind = "empty" THEN 0
  ELSE IF body.kind = "bibtex" THEN Len(body.text)
       ELSE 1 + Len(body.entries)

\* fetch_url: <<status, body>>; status <<>> is None (URLError)
TransportFailure == [status |-> <<>>, body |-> EmptyBody]

Ok200(body) == [status |-> <<200>>, body |-> body]

(***************************************************************************)
(* The registry store.  A table with an INTEGER PRIMARY KEY is a sequence  *)
(* whose index is the key (rows are never deleted from these tables, so    *)
(* SQLite gives a new row the key max + 1); the other tables are sets of   *)
(* rows.  An integer column that may be NULL holds <<>> or <<n>>.          *)
(***************************************************************************)
SCHEMA_VERSION == "1"

\* the registry file before any command has run on it.  Three history fields
\* ride along with the tables, written and rolled back with them and never
\* read by a command: g_upserted[work_id] is the record of the latest
\* upsert_work of that work, g_stored_utc[search_id] the instant at which the
\* search was inserted and g_body[search_id] the bytes it had fetched.
EmptyStore ==
  [schema_meta |-> {}, works |-> <<>>, authors |-> <<>>, work_authors |-> {},
   searches |-> <<>>, search_results |-> {}, fetches |-> <<>>,
   citation_keys |-> {}, bibtex |-> {},
   g_upserted |-> <<>>, g_stored_utc |-> <<>>, g_body |-> <<>>]

\* a schema creation that drops and recreates its tables
init_schema_recreate(s) ==
  [EmptyStore EXCEPT !.schema_meta =
     {[key |-> "schema_version", value |-> SCHEMA_VERSION]}]

\* init_schema: CREATE ... IF NOT EXISTS, then the upsert of the version marker
init_schema(s) ==
  [s EXCEPT !.schema_meta =
     {r \in s.schema_meta : r.key # "schema_version"}
       \cup {[key |-> "schema_version", value |-> SCHEMA_VERSION]}]

\* ensure_initialized: TRUE when the marker row is there
ensure_initialized(s) == \E r \in s.schema_meta : r.key = "schema_version"

\* now_iso(): the local wall clock and its UTC offset, as the ISO text shows them
now_iso == [wall |-> now + tz, off |-> tz]

\* order of two ISO texts as SQLite compares TEXT: the wall-clock digits first,
\* then the offset suffix
IsoTextLess(a, b) == a.wall < b.wall \/ (a.wall = b.wall /\ a.off < b.off)

\* the wall-clock reading taken for UTC, its offset dropped
ToUtc_wall(iso) == iso.wall

\* parse_iso_datetime(text).astimezone(timezone.utc), in seconds
ToUtc(iso) == iso.wall - iso.off

\* sha256_bytes: injective on the bodies of the model
sha256_bytes(body) == <<"sha256", body>>

\* json.dumps(categories)
JsonDumps(list) == <<"json", list>>

\* COALESCE(a, b)
Coalesce(a, b) == IF a # NULL THEN a ELSE b

\* a store without the index works_doi_unique
DoiConflict_off(works, self, doi) == FALSE

\* the partial unique index works_doi_unique: TRUE when giving row `self` the DOI
\* `doi` would duplicate the non-null DOI of another row (self = 0: a new row)
DoiConflict(works, self, doi) ==
  doi # NULL /\ \E j \in 1..Len(works) : j # self /\ works[j].doi = doi

\* a lookup that never finds the identifier (no UNIQUE(arxiv_id))
WorkByArxivId_none(works, arxiv_id) == 0

\* UNIQUE(arxiv_id): the row that holds this identifier, 0 when there is none
WorkByArxivId(works, arxiv_id) ==
  LET hits == {i \in 1..Len(works) : works[i].arxiv_id = arxiv_id}
  IN IF hits = {} THEN 0 ELSE CHOOSE i \in hits : TRUE

\* VALUES(...) of the INSERT in upsert_work
InsertedRow(w, doi_value, ts) ==
  [arxiv_id |-> w.arxiv_id, title |-> w.title, summary |-> w.summary,
   published |-> w.published, updated |-> w.updated, comment |-> w.comment,
   primary_category |-> w.primary_category,
   categories_json |-> JsonDumps(w.categories),
   abs_url |-> w.abs_url, pdf_url |-> w.pdf_url, journal_ref |-> w.journal_ref,
   doi |-> doi_value, created_at |-> ts, last_seen_at |-> ts]

\* an update whose comment is excluded.comment, without COALESCE
UpdatedRow_overwrite(old, w, doi_value, ts) ==
  [old EXCEPT
     !.title = w.title,
     !.summary = w.summary,
     !.published = w.published,
     !.updated = w.updated,
     !.comment = w.comment,
     !.primary_category = w.primary_category,
     !.categories_json = JsonDumps(w.categories),
     !.abs_url = Coalesce(w.abs_url, old.abs_url),
     !.pdf_url = Coalesce(w.pdf_url, old.pdf_url),
     !.journal_ref = Coalesce(w.journal_ref, old.journal_ref),
     !.doi = Coalesce(old.doi, doi_value),
     !.last_seen_at = ts]

\* ON CONFLICT(arxiv_id) DO UPDATE SET ... of upsert_work
UpdatedRow(old, w, doi_value, ts) ==
  [old EXCEPT
     !.title = w.title,
     !.summary = w.summary,
     !.published = w.published,
     !.updated = w.updated,
     !.comment = Coalesce(w.comment, old.comment),
     !.primary_category = w.primary_category,
     !.categories_json = JsonDumps(w.categories),
     !.abs_url = Coalesce(w.abs_url, old.abs_url),
     !.pdf_url = Coalesce(w.pdf_url, old.pdf_url),
     !.journal_ref = Coalesce(w.journal_ref, old.journal_ref),
     !.doi = Coalesce(old.doi, doi_value),
     !.last_seen_at = ts]

\* run(doi_value) inside upsert_work: the INSERT ... ON CONFLICT ... RETURNING
\* statement.  ok = FALSE is sqlite3.IntegrityError (the statement changed
\* nothing); otherwise works is the table after it and work_id the returned key.
Run(works, w, doi_value, ts) ==
  LET i == WorkByArxivId(works, w.arxiv_id)
  IN IF i = 0
     THEN IF DoiConflict(works, 0, doi_value)
          THEN [ok |-> FALSE, works |-> works, work_id |-> 0]
          ELSE [ok |-> TRUE, works |-> Append(works, InsertedRow(w, doi_value, ts)),
                work_id |-> Len(works) + 1]
     ELSE LET row == UpdatedRow(works[i], w, doi_value, ts)
          IN IF DoiConflict(works, i, row.doi)
             THEN [ok |-> FALSE, works |-> works, work_id |-> 0]
             ELSE [ok |-> TRUE, works |-> [works EXCEPT ![i] = row], work_id |-> i]

\* run(work.get("doi")) without the except clause
UpsertRow_noretry(works, w, ts) == Run(works, w, w.doi, ts)

\* the try/except around run() in upsert_work
UpsertRow(works, w, ts) ==
  LET first == Run(works, w, w.doi, ts)
  IN IF first.ok THEN first ELSE Run(works, w, NULL, ts)

\* INSERT INTO authors(name) on a table whose name column is not UNIQUE
InsertAuthor_always(authors, name) == Append(authors, name)

\* INSERT INTO authors(name) ... ON CONFLICT(name) DO NOTHING
InsertAuthor(authors, name) ==
  IF \E i \in 1..Len(authors) : authors[i] = name THEN authors
  ELSE Append(authors, name)

\* SELECT author_id FROM authors WHERE name = ?
AuthorId(authors, name) == CHOOSE i \in 1..Len(authors) : authors[i] = name

(***************************************************************************)
(* The search cache.                                                       *)
(***************************************************************************)
\* arxiv_query_url: the request URL, one field per query-string parameter
arxiv_query_url(params) ==
  [search_query |-> Strip(params.query), start |-> params.start,
   max_results |-> params.max_results, sortBy |-> params.sort_by,
   sortOrder |-> params.sort_order]

\* WHERE query = ? AND start = ? AND max_results = ? AND sort_by = ? AND sort_order = ?
ParamsMatch(row, params) ==
  /\ row.query = params.query
  /\ row.start = params.start
  /\ row.max_results = params.max_results
  /\ row.sort_by = params.sort_by
  /\ row.sort_order = params.sort_order

\* ORDER BY requested_at DESC: TRUE when row i comes before row j.  Rows with the
\* same text come out of the backward scan of searches_params_idx by rowid.
OrderedBefore(searches, i, j) ==
  \/ IsoTextLess(searches[j].requested_at, searches[i].requested_at)
  \/ (searches[j].requested_at = searches[i].requested_at /\ j < i)

\* the SELECT ... LIMIT 1 of search_cache_hit: the search_id of the row it
\* returns, 0 when it returns none
CacheLookup(searches, params) ==
  LET m == {i \in 1..Len(searches) : ParamsMatch(searches[i], params)}
  IN IF m = {} THEN 0
     ELSE CHOOSE i \in m : \A j \in m : j = i \/ OrderedBefore(searches, i, j)

\* age_s > float(cache_ttl_s), read at instant t
TooOld(requested_at, t, cache_ttl_s) == t - ToUtc(requested_at) > cache_ttl_s

\* search_cache_hit: the search_id it reuses, 0 for None (a stored requested_at
\* is always the text of now_iso(), so parse_iso_datetime never returns None)
search_cache_hit(s, params, cache_ttl_s, t) ==
  IF cache_ttl_s <= 0 THEN 0
  ELSE LET i == CacheLookup(s.searches, params)
       IN IF i = 0 THEN 0
          ELSE IF TooOld(s.searches[i].requested_at, t, cache_ttl_s) THEN 0
          ELSE i

\* what errors="replace" makes of an entry whose bytes are not UTF-8
Replaced(e) == IF e.v = "accent" THEN [e EXCEPT !.v = "replaced"] ELSE e

\* what a parser that reads UTF-8 bytes as Latin-1 makes of an entry
Misread(e) == IF e.v = "replaced" THEN [e EXCEPT !.v = "mojibake"] ELSE e

\* body.decode("utf-8", errors="replace"), the text kept in searches.raw_xml:
\* the same characters for UTF-8 bytes, U+FFFD for each byte of a Latin-1
\* letter outside ASCII, and no markup at all for UTF-16 bytes
DecodeUtf8(body) ==
  CASE body.enc = "utf-8" -> [body EXCEPT !.kind = "text"]
    [] body.enc = "latin-1" ->
         [body EXCEPT !.kind = "text",
                      !.entries = [i \in 1..Len(@) |-> Replaced(@[i])]]
    [] OTHER -> [body EXCEPT !.kind = "garbled"]

\* str(raw_xml).encode("utf-8", errors="replace"), as ET.fromstring reads the
\* bytes: under the encoding that the XML declaration of the text names
EncodeUtf8(text) ==
  CASE text.kind = "garbled" -> [text EXCEPT !.kind = "malformed"]
    [] text.enc = "latin-1" ->
         [text EXCEPT !.kind = "feed",
                      !.entries = [i \in 1..Len(@) |-> Misread(@[i])]]
    [] OTHER -> [text EXCEPT !.kind = "feed"]

\* str.isdigit() of one character: the decimal digits and the other characters
\* of Unicode digit kind, of which "^2" (SUPERSCRIPT TWO) stands for all
IsDigitChar(c) == IsDigit(c) \/ c = "^2"

\* str.isdigit() of a counter text
IsDigitText(t) == t # <<>> /\ \A i \in 1..Len(t) : IsDigitChar(t[i])

\* int(text) returns for a text of decimal digits and raises ValueError for a
\* text with any other character
IntParses(t) == t # <<>> /\ \A i \in 1..Len(t) : IsDigit(t[i])

DigitValue(c) ==
  CHOOSE n \in 0..9 : <<"0", "1", "2", "3", "4", "5", "6", "7", "8", "9">>[n + 1] = c

\* int(text) of a text of digits
RECURSIVE IntOf(_)
IntOf(t) ==
  IF t = <<>> THEN 0
  ELSE 10 * IntOf(SubSeq(t, 1, Len(t) - 1)) + DigitValue(t[Len(t)])

\* int(meta[k]) if meta.get(k) and str(meta[k]).isdigit() else None
CounterColumn(t) == IF IsDigitText(t) THEN <<IntOf(t)>> ELSE <<>>

\* the same expression raises ValueError: isdigit() accepts what int() refuses
CounterRaises(t) == IsDigitText(t) /\ ~IntParses(t)

(***************************************************************************)
(* Citation keys.                                                          *)
(***************************************************************************)
\* the characters [a-z0-9]
IsKeyChar(c) == IsDigit(c) \/ \E i \in 1..26 : LowerLetters[i] = c

\* the characters [A-Za-z0-9]
IsTokenChar(c) == IsKeyChar(c) \/ \E i \in 1..26 : UpperLetters[i] = c

\* the longest prefix of s without white space
RECURSIVE Word(_)
Word(s) ==
  IF s = <<>> \/ IsSpace(Head(s)) THEN <<>> ELSE <<Head(s)>> \o Word(Tail(s))

\* str.split(): the runs of characters between white space
RECURSIVE Split(_)
Split(s) ==
  LET t == LStrip(s)
  IN IF t = <<>> THEN <<>>
     ELSE <<Word(t)>> \o Split(SubSeq(t, Len(Word(t)) + 1, Len(t)))

\* " ".join(words)
RECURSIVE Join(_)
Join(words) ==
  IF words = <<>> THEN <<>>
  ELSE IF Len(words) = 1 THEN words[1]
       ELSE words[1] \o <<" ">> \o Join(Tail(words))

\* surname_from_author that takes the first token of the name
surname_from_author_first(name) ==
  IF Split(name) = <<>> THEN <<>> ELSE Split(name)[1]

\* parts[-1]
Last(parts) == parts[Len(parts)]

\* surname_from_author, lines 472-477, for the cleaned name
Surname(cleaned) ==
  IF cleaned = <<>> THEN <<>>
  ELSE IF Find(cleaned, <<",">>) # 0 THEN Strip(SplitHead(cleaned, <<",">>))
       ELSE Strip(Last(Split(cleaned)))

\* surname_from_author
surname_from_author(name) == Surname(Strip(Join(Split(name))))

\* normalize_key_token: re.sub(r"[^a-z0-9]+", "", value.lower())
normalize_key_token(value) ==
  Strip(SelectSeq([i \in 1..Len(value) |-> Lower(value[i])], IsKeyChar))

\* the longest prefix of s made of [A-Za-z0-9]
RECURSIVE Token(_)
Token(s) ==
  IF s = <<>> \/ ~IsTokenChar(Head(s)) THEN <<>> ELSE <<Head(s)>> \o Token(Tail(s))

\* first_title_token: the first non-empty piece of
\* re.split(r"[^A-Za-z0-9]+", title.strip())
RECURSIVE first_title_token(_)
first_title_token(title) ==
  LET t == Strip(title)
  IN IF t = <<>> THEN <<>>
     ELSE IF IsTokenChar(Head(t)) THEN Token(t)
          ELSE first_title_token(Tail(t))

\* year_from_published; published is <<>> for None and <<text>> otherwise
year_from_published(published) ==
  LET t == IF published = <<>> THEN <<>> ELSE Strip(published[1])
  IN IF Len(t) >= 4 /\ \A i \in 1..4 : IsDigit(t[i])
     THEN SubSeq(t, 1, 4)
     ELSE <<"0", "0", "0", "0">>

\* str(n) of a natural number
RECURSIVE Str(_)
Str(n) ==
  LET digit(d) == <<"0", "1", "2", "3", "4", "5", "6", "7", "8", "9">>[d + 1]
  IN IF n < 10 THEN <<digit(n)>> ELSE Str(n \div 10) \o <<digit(n % 10)>>

\* ensure_citation_key, lines 522-528: the base key of a work; authors are
\* the names of the work in position order
BaseOr(base, arxiv_id) ==
  IF base = <<>>
  THEN <<"a", "r", "x", "i", "v">> \o normalize_key_token(arxiv_id)
  ELSE base

BaseKey(authors, published, title, arxiv_id) ==
  LET first_author == IF authors = <<>> THEN <<>>
                      ELSE surname_from_author(authors[1])
      year == year_from_published(published)
      first_word == first_title_token(title)
  IN BaseOr(normalize_key_token(first_author) \o year
              \o normalize_key_token(first_word), arxiv_id)

\* ensure_citation_key, lines 533-534: the suffix of the second candidate
Suffix(arxiv_id, work_id) ==
  LET digits == SelectSeq(arxiv_id, IsDigit)
  IN IF digits = <<>> THEN Str(work_id)
     ELSE SubSeq(digits, IF Len(digits) > 6 THEN Len(digits) - 5 ELSE 1, Len(digits))

\* the characters of the texts that the records of the model carry
Chars(text) ==
  CASE text = "" -> <<>>
    [] text = "t1" -> <<"t", "1">>
    [] text = "t2" -> <<"t", "2">>
    [] text = "x" -> <<"x">>
    [] text = "y" -> <<"y">>
    [] text = "Doe, Jane" -> <<"D", "o", "e", ",", " ", "J", "a", "n", "e">>
    [] text = "Jane Doe" -> <<"J", "a", "n", "e", " ", "D", "o", "e">>
    [] text = ", Jane" -> <<",", " ", "J", "a", "n", "e">>
    [] text = "R. <U+00DC>lo" -> <<"R", ".", " ", "<U+00DC>", "l", "o">>
    [] text = "2023-05-01" -> <<"2", "0", "2", "3", "-", "0", "5", "-", "0", "1">>
    [] text = "2023-07-09" -> <<"2", "0", "2", "3", "-", "0", "7", "-", "0", "9">>
    [] text = "May 2023" -> <<"M", "a", "y", " ", "2", "0", "2", "3">>
    [] text = "Scaling Transformers" ->
         <<"S", "c", "a", "l", "i", "n", "g", " ",
           "T", "r", "a", "n", "s", "f", "o", "r", "m", "e", "r", "s">>
    [] text = "Scaling up" -> <<"S", "c", "a", "l", "i", "n", "g", " ", "u", "p">>
    [] text = "Scaling3 laws" ->
         <<"S", "c", "a", "l", "i", "n", "g", "3", " ", "l", "a", "w", "s">>
    [] text = "(3D) things" ->
         <<"(", "3", "D", ")", " ", "t", "h", "i", "n", "g", "s">>
    [] text = "???" -> <<"?", "?", "?">>

\* the name of the first author of a work (ORDER BY wa.position ASC LIMIT 1),
\* as a list of at most one name
FirstAuthor(s, work_id) ==
  LET rows == {a \in s.work_authors : a.work_id = work_id}
  IN IF rows = {} THEN <<>>
     ELSE <<s.authors[(CHOOSE a \in rows :
                         \A b \in rows : a.position <= b.position).author_id]>>

\* the key a work holds, as a list of at most one key
KeyOf(s, work_id) ==
  LET rows == {r \in s.citation_keys : r.work_id = work_id}
  IN IF rows = {} THEN <<>> ELSE <<(CHOOSE r \in rows : TRUE).key>>

\* SELECT work_id FROM citation_keys WHERE key = ? finds a row of another work
Taken(s, key, work_id) ==
  \E r \in s.citation_keys : r.key = key /\ r.work_id # work_id

\* ensure_citation_key, lines 504-528
WorkBaseKey(s, work_id) ==
  LET work == s.works[work_id]
      first == FirstAuthor(s, work_id)
  IN BaseKey(IF first = <<>> THEN <<>> ELSE <<Chars(first[1])>>,
             IF work.published = NULL THEN <<>> ELSE <<Chars(work.published)>>,
             Chars(work.title), work.arxiv_id)

\* ensure_citation_key, lines 530-538: the candidate that is inserted for a
\* work with this base key, with the base key
CandidateFor(s, work_id, base, suffix) ==
  [base |-> base,
   key |-> IF ~Taken(s, base, work_id) THEN base
           ELSE IF ~Taken(s, base \o suffix, work_id) THEN base \o suffix
                ELSE base \o Str(work_id)]

\* ensure_citation_key, lines 504-538
Candidate(s, work_id) ==
  CandidateFor(s, work_id, WorkBaseKey(s, work_id),
               Suffix(s.works[work_id].arxiv_id, work_id))

\* the row that ensure_citation_key inserts
KeyRow(work_id, c, ts) ==
  [work_id |-> work_id, key |-> c.key, base_key |-> c.base, generated_at |-> ts]

\* ensure_citation_key, lines 540-544, on a table whose key column is not
\* UNIQUE
Insert_nounique(s, work_id, c, ts) ==
  [raised |-> FALSE,
   s |-> [s EXCEPT !.citation_keys = @ \cup {KeyRow(work_id, c, ts)}],
   key |-> c.key]

\* ensure_citation_key, lines 540-544: the INSERT raises IntegrityError when
\* a row holds the key (UNIQUE constraint)
Insert(s, work_id, c, ts) ==
  IF \E r \in s.citation_keys : r.key = c.key
  THEN [raised |-> TRUE, s |-> s, key |-> c.key]
  ELSE [raised |-> FALSE,
        s |-> [s EXCEPT !.citation_keys = @ \cup {KeyRow(work_id, c, ts)}],
        key |-> c.key]

\* ensure_citation_key, lines 500-502: the key the work holds is returned
Held(s, held) == [raised |-> FALSE, s |-> s, key |-> held[1]]

\* ensure_citation_key that generates a key at every call
ensure_citation_key_again(s, work_id, ts) ==
  Insert([s EXCEPT !.citation_keys = {r \in @ : r.work_id # work_id}],
         work_id, Candidate(s, work_id), ts)

\* ensure_citation_key: the store after the call, the key it returns, and
\* whether the INSERT raised IntegrityError
ensure_citation_key(s, work_id, ts) ==
  IF KeyOf(s, work_id) # <<>>
  THEN Held(s, KeyOf(s, work_id))
  ELSE Insert(s, work_id, Candidate(s, work_id), ts)

(***************************************************************************)
(* Citation text (BibTeX).                                                 *)
(***************************************************************************)
\* the characters that \w matches: letters, digits and the underscore
IsWordChar(c) == IsTokenChar(c) \/ c = "_"

\* the index after the white space that starts at index i (\s*)
RECURSIVE SkipSpace(_, _)
SkipSpace(s, i) ==
  IF i <= Len(s) /\ IsSpace(s[i]) THEN SkipSpace(s, i + 1) ELSE i

\* the index after the word characters that start at index i (\w*)
RECURSIVE SkipWord(_, _)
SkipWord(s, i) ==
  IF i <= Len(s) /\ IsWordChar(s[i]) THEN SkipWord(s, i + 1) ELSE i

\* the index of the first comma at or after index i, 0 when there is none
NextComma(s, i) ==
  LET hits == {k \in i..Len(s) : s[k] = ","}
  IN IF hits = {} THEN 0 ELSE CHOOSE k \in hits : \A j \in hits : k <= j

\* group 2 of @(\w+)\s*\{\s*([^,]+)\s*, for the brace at index b and the
\* first comma after it at index c: [^,]+ runs up to the comma, and takes the
\* last white space character when there is nothing else before the comma
Group2(s, b, c) ==
  IF SkipSpace(s, b + 1) < c THEN <<SkipSpace(s, b + 1), c - 1>>
  ELSE <<c - 1, c - 1>>

\* the pattern of rewrite_bibtex_key matched at index i: the first and last
\* index of group 2, <<>> when the pattern does not match there
KeySpanAt(s, i) ==
  LET b == SkipSpace(s, SkipWord(s, i + 1))
  IN IF \/ s[i] # "@"
        \/ SkipWord(s, i + 1) = i + 1
        \/ b > Len(s)
        \/ s[b] # "{"
        \/ NextComma(s, b + 1) \in {0, b + 1}
     THEN <<>>
     ELSE Group2(s, b, NextComma(s, b + 1))

\* re.search: the leftmost index at which the pattern matches, 0 for None
SearchKey(s) ==
  LET hits == {i \in 1..Len(s) : KeySpanAt(s, i) # <<>>}
  IN IF hits = {} THEN 0 ELSE CHOOSE i \in hits : \A j \in hits : i <= j

\* bibtex_text[:start] + new_key + bibtex_text[end:]
Splice(s, span, new_key) ==
  SubSeq(s, 1, span[1] - 1) \o new_key \o SubSeq(s, span[2] + 1, Len(s))

\* rewrite_bibtex_key
rewrite_bibtex_key(bibtex_text, new_key) ==
  IF SearchKey(bibtex_text) = 0 THEN bibtex_text
  ELSE Splice(bibtex_text, KeySpanAt(bibtex_text, SearchKey(bibtex_text)), new_key)

\* the index after the characters that are neither white space nor a comma
\* and start at index i ([^,\s]*)
RECURSIVE SkipKey(_, _)
SkipKey(s, i) ==
  IF i <= Len(s) /\ ~IsSpace(s[i]) /\ s[i] # "," THEN SkipKey(s, i + 1) ELSE i

\* the pattern @\w+\s*\{\s*([^,\s]+)\s*, of existing_bibtex_keys matched at
\* index i: the first and last index of group 1 and the index of the comma,
\* <<>> when the pattern does not match there
FileKeyAt(s, i) ==
  LET b == SkipSpace(s, SkipWord(s, i + 1))
      k == SkipSpace(s, b + 1)
      c == SkipSpace(s, SkipKey(s, k))
  IN IF /\ s[i] = "@"
        /\ SkipWord(s, i + 1) > i + 1
        /\ b <= Len(s) /\ s[b] = "{"
        /\ SkipKey(s, k) > k
        /\ c <= Len(s) /\ s[c] = ","
     THEN <<k, SkipKey(s, k) - 1, c>>
     ELSE <<>>

\* re.findall from index i on: the matches do not overlap
RECURSIVE FindKeys(_, _)
FindKeys(s, i) ==
  IF i > Len(s) THEN {}
  ELSE IF FileKeyAt(s, i) = <<>> THEN FindKeys(s, i + 1)
       ELSE {SubSeq(s, FileKeyAt(s, i)[1], FileKeyAt(s, i)[2])}
              \cup FindKeys(s, FileKeyAt(s, i)[3] + 1)

\* existing_bibtex_keys: file is the list of the texts appended to the
\* destination (a file that does not exist gives the empty set, as does an
\* empty one)
existing_bibtex_keys(file) ==
  FindKeys(Concat([i \in DOMAIN file |-> file[i].text]), 1)

\* the URL of the citation-text endpoint
BibUrl(arxiv_id) == [bibtex |-> arxiv_id]

\* body.decode("utf-8", errors="replace").strip() + "\n"; the citation texts
\* of the model are ASCII, which decodes to the same characters
BibtexText(body) == Strip(body.text) \o <<"\n">>

\* an INSERT INTO bibtex without its ON CONFLICT clause, on a table without
\* the primary key
UpsertBibtex_add(rows, row) == rows \cup {row}

\* INSERT INTO bibtex ... ON CONFLICT(work_id) DO UPDATE SET fetched_at,
\* source_url, sha256, bibtex
UpsertBibtex(rows, row) ==
  {r \in rows : r.work_id # row.work_id} \cup {row}

\* SELECT bibtex FROM bibtex WHERE work_id = ?: a list of at most one text
CachedBibtex(s, work_id) ==
  LET rows == {r \in s.bibtex : r.work_id = work_id}
  IN IF rows = {} THEN <<>> ELSE <<(CHOOSE r \in rows : TRUE).bibtex>>

(***************************************************************************)
(* The markup of a response, element by element.  An element that may be   *)
(* missing is a list of at most one text: <<>> when the element is not     *)
(* there, <<t>> when it is, t being its text and <<>> the text of an       *)
(* element without content (ElementTree gives None for it).  A field of    *)
(* a record is <<>> for None and <<t>> for the string t.                   *)
(***************************************************************************)
\* xml_text
xml_text(node) ==
  IF node = <<>> \/ node[1] = <<>> THEN <<>> ELSE <<Join(Split(node[1]))>>

\* primary_node.attrib.get("term") of the element arxiv:primary_category; an
\* element is the record of its attributes
PrimaryTerm(node) ==
  IF node = <<>> \/ "term" \notin DOMAIN node[1] THEN <<>> ELSE <<node[1].term>>

\* (link.attrib.get(name) or "").strip()
AttrStripped(link, name) ==
  IF name \in DOMAIN link THEN Strip(link[name]) ELSE <<>>

TextHtml == <<"t", "e", "x", "t", "/", "h", "t", "m", "l">>

ApplicationPdf ==
  <<"a", "p", "p", "l", "i", "c", "a", "t", "i", "o", "n", "/", "p", "d", "f">>

Alternate == <<"a", "l", "t", "e", "r", "n", "a", "t", "e">>

\* `abs_url is None and rel == "alternate" and link_type == "text/html"` for
\* a link that has an href
IsAbsLink(link) ==
  /\ AttrStripped(link, "href") # <<>>
  /\ AttrStripped(link, "rel") = Alternate
  /\ AttrStripped(link, "type") = TextHtml

\* `pdf_url is None and link_type == "application/pdf"` for a link that has
\* an href
IsPdfLink(link) ==
  /\ AttrStripped(link, "href") # <<>>
  /\ AttrStripped(link, "type") = ApplicationPdf

\* the loop over atom:link: the href of the first abstract-page link
AbsLink(links) ==
  IF SelectSeq(links, IsAbsLink) = <<>> THEN <<>>
  ELSE <<AttrStripped(SelectSeq(links, IsAbsLink)[1], "href")>>

\* the loop over atom:link: the href of the first document link
PdfLink(links) ==
  IF SelectSeq(links, IsPdfLink) = <<>> THEN <<>>
  ELSE <<AttrStripped(SelectSeq(links, IsPdfLink)[1], "href")>>

\* parse_arxiv_feed, lines 278-283: the summary of the feed
ParseMeta(root) ==
  [updated |-> xml_text(root.updated),
   total_results |-> xml_text(root.totalResults),
   items_per_page |-> xml_text(root.itemsPerPage),
   start_index |-> xml_text(root.startIndex)]

\* parse_arxiv_feed, lines 292-322: the optional fields of the record of an
\* entry
ParseOptional(entry) ==
  [summary |-> xml_text(entry.summary),
   published |-> xml_text(entry.published),
   updated |-> xml_text(entry.updated),
   comment |-> xml_text(entry.comment),
   journal_ref |-> xml_text(entry.journal_ref),
   doi |-> xml_text(entry.doi),
   primary_category |-> PrimaryTerm(entry.primary_category),
   abs_url |-> AbsLink(entry.link),
   pdf_url |-> PdfLink(entry.link)]

(***************************************************************************)
(* State.  db is the committed content of the registry file, tx the        *)
(* content as the running command's connection sees it (db plus its        *)
(* uncommitted writes), pc the statement the running command is at, loc    *)
(* its local variables, out what the last finished command reported, now   *)
(* the UTC clock in seconds and tz the UTC offset of the local time zone.  *)
(* bib is the content of the destination file of the citation texts, the   *)
(* texts appended to it in order, each with the identifier it was written  *)
(* for (g_arxiv_id, which only the properties read), and lock tells who    *)
(* holds the write lock of the registry file between two steps: "free",    *)
(* "other" for another invocation of the program, or the name of one of    *)
(* the two invocations of SpecRace.                                        *)
(***************************************************************************)
NoLoc == [cmd |-> "none"]

NoWork == [arxiv_id |-> <<>>, authors |-> <<>>]

\* the offsets the local time zone may have (summer and winter time)
TzOffsets == {0, 1}

Init ==
  /\ db = EmptyStore
  /\ tx = EmptyStore
  /\ pc = "idle"
  /\ loc = NoLoc
  /\ out = [cmd |-> "none", kind |-> "none"]
  /\ now = 0
  /\ tz = 0
  /\ bib = <<>>
  /\ lock = "free"

\* an exception after which the connection's writes are kept
Raise_commit(s, cmd, what) ==
  /\ db' = tx
  /\ tx' = tx
  /\ pc' = "idle"
  /\ loc' = NoLoc
  /\ out' = [cmd |-> cmd, kind |-> "exception", what |-> what, step |-> pc]

\* an exception leaves the `with connect(...) as conn:` block: the connection
\* rolls back to s, the committed content, and the traceback names the step
Raise(s, cmd, what) ==
  /\ db' = s
  /\ tx' = s
  /\ pc' = "idle"
  /\ loc' = NoLoc
  /\ out' = [cmd |-> cmd, kind |-> "exception", what |-> what, step |-> pc]

\* cmd_init
CmdInit ==
  /\ pc = "idle"
  /\ db' = init_schema(db)
  /\ tx' = init_schema(db)
  /\ out' = [cmd |-> "init", kind |-> "ok"]
  /\ UNCHANGED <<pc, loc, now, tz, bib, lock>>

\* cmd_search with a query that is blank: arxiv_query_url raises ValueError
\* before the registry is opened
CmdSearchBlank(params) ==
  /\ pc = "idle"
  /\ Strip(params.query) = <<>>
  /\ out' = [cmd |-> "search", kind |-> "exception", what |-> "ValueError",
             step |-> "arxiv_query_url"]
  /\ UNCHANGED <<db, tx, pc, loc, now, tz, bib, lock>>

\* cmd_search, lines 619-633: the cache answers
CmdSearchHit(params, cache_ttl_s) ==
  /\ pc = "idle"
  /\ Strip(params.query) # <<>>
  /\ LET s == init_schema(db)
         i == search_cache_hit(s, params, cache_ttl_s, now)
         raw_xml == EncodeUtf8(s.searches[i].raw_xml)
         parsed == parse_arxiv_feed(raw_xml)
         report == [cmd |-> "search", params |-> params,
                    cache_ttl_s |-> cache_ttl_s, refresh |-> FALSE,
                    fetched |-> FALSE, search_id |-> i]
     IN /\ i # 0
        /\ db' = s
        /\ tx' = s
        /\ out' = IF ParseError(raw_xml)
                  THEN report @@ [kind |-> "exception", what |-> "ParseError",
                                  step |-> "search_cache_hit"]
                  ELSE report @@ [kind |-> "hit", meta |-> parsed[1],
                                  entries |-> parsed[2]]
  /\ UNCHANGED <<pc, loc, now, tz, bib, lock>>

\* cmd_search, lines 619-640: --refresh or a cache miss, then fetch_url and
\* parse_arxiv_feed
CmdSearchMiss(params, cache_ttl_s, refresh, resp) ==
  /\ pc = "idle"
  /\ Strip(params.query) # <<>>
  /\ LET s == init_schema(db)
         report == [cmd |-> "search", params |-> params,
                    cache_ttl_s |-> cache_ttl_s, refresh |-> refresh,
                    fetched |-> TRUE]
     IN /\ refresh \/ search_cache_hit(s, params, cache_ttl_s, now) = 0
        /\ db' = s
        /\ tx' = s
        /\ IF resp.body.kind = "empty"
           THEN /\ out' = report @@ [kind |-> "empty"]
                /\ UNCHANGED <<pc, loc>>
           ELSE IF ParseError(resp.body)
           THEN /\ out' = report @@ [kind |-> "exception", what |-> "ParseError",
                                      step |-> "parse_arxiv_feed"]
                /\ UNCHANGED <<pc, loc>>
           ELSE /\ out' = report @@ [kind |-> "running"]
                /\ pc' = "record_fetch"
                /\ loc' = [cmd |-> "search", params |-> params,
                           url |-> arxiv_query_url(params),
                           status |-> resp.status, body |-> resp.body,
                           meta |-> parse_arxiv_feed(resp.body)[1],
                           entries |-> parse_arxiv_feed(resp.body)[2],
                           search_id |-> 0, k |-> 0, work |-> NoWork,
                           work_id |-> 0, ai |-> 0, seen |-> {}, apos |-> 0,
                           ret |-> "insert_result"]
  /\ UNCHANGED <<now, tz, bib, lock>>

\* record_fetch
record_fetch(s, kind, url, status, body) ==
  [s EXCEPT !.fetches = Append(@,
     [fetched_at |-> now_iso, kind |-> kind, url |-> url, status |-> status,
      sha256 |-> IF body.kind = "empty" THEN <<>> ELSE sha256_bytes(body),
      bytes |-> BodyLen(body)])]

\* cmd_search, lines 642-645 (the model follows a search into its second
\* block while the tables have room for its rows)
SearchRecordFetch ==
  /\ pc = "record_fetch"
  /\ loc.cmd = "search"
  /\ Len(db.searches) < MaxSearches
  /\ Len(db.fetches) < MaxFetches
  /\ db' = init_schema(db)
  /\ tx' = record_fetch(init_schema(tx), "arxiv_api_search", loc.url,
                        loc.status, loc.body)
  /\ pc' = "insert_search"
  /\ out' = [cmd |-> "search", kind |-> "storing"]
  /\ UNCHANGED <<loc, now, tz, bib, lock>>

\* the row of INSERT INTO searches
SearchRow(l) ==
  [requested_at |-> now_iso, query |-> l.params.query, url |-> l.url,
   start |-> l.params.start, max_results |-> l.params.max_results,
   sort_by |-> l.params.sort_by, sort_order |-> l.params.sort_order,
   total_results |-> CounterColumn(l.meta.total_results),
   items_per_page |-> CounterColumn(l.meta.items_per_page),
   start_index |-> CounterColumn(l.meta.start_index),
   result_count |-> Len(l.entries),
   raw_sha256 |-> sha256_bytes(l.body),
   raw_xml |-> DecodeUtf8(l.body)]

\* the entry the loop `for pos, entry in enumerate(entries)` takes next
NextEntry(l, k) ==
  IF k <= Len(l.entries)
  THEN [l EXCEPT !.k = k, !.work = l.entries[k]]
  ELSE [l EXCEPT !.k = k, !.work = NoWork]

\* INSERT INTO searches ... RETURNING search_id: the table after it
InsertSearch(searches, row) == Append(searches, row)

\* cmd_search, lines 647-674
SearchInsert ==
  /\ pc = "insert_search"
  /\ IF \/ CounterRaises(loc.meta.total_results)
        \/ CounterRaises(loc.meta.items_per_page)
        \/ CounterRaises(loc.meta.start_index)
     THEN Raise(db, "search", "ValueError") /\ UNCHANGED <<now, tz, bib, lock>>
     ELSE /\ tx' = [tx EXCEPT !.searches = InsertSearch(@, SearchRow(loc)),
                              !.g_stored_utc = Append(@, now),
                              !.g_body = Append(@, loc.body)]
          /\ loc' = NextEntry([loc EXCEPT !.search_id = Len(tx.searches) + 1], 1)
          /\ pc' = IF loc.entries = <<>> THEN "commit" ELSE "upsert_row"
          /\ UNCHANGED <<db, out, now, tz, bib, lock>>

\* DELETE FROM work_authors WHERE work_id = ?
DeleteAuthorship(work_authors, work_id) ==
  {a \in work_authors : a.work_id # work_id}

\* upsert_work, lines 352-407: the INSERT ... ON CONFLICT with its retry, then
\* DELETE FROM work_authors
UpsertWorkRow ==
  /\ pc = "upsert_row"
  /\ LET r == UpsertRow(tx.works, loc.work, now_iso)
     IN IF ~r.ok
        THEN Raise(db, loc.cmd, "IntegrityError") /\ UNCHANGED <<now, tz, bib, lock>>
        ELSE /\ tx' = [tx EXCEPT !.works = r.works,
                         !.work_authors = DeleteAuthorship(@, r.work_id),
                         !.g_upserted =
                            [i \in 1..Len(r.works) |->
                               IF i = r.work_id THEN loc.work ELSE @[i]]]
             /\ loc' = [loc EXCEPT !.work_id = r.work_id, !.ai = 1,
                          !.seen = {}, !.apos = 0]
             /\ pc' = IF loc.work.authors = <<>> THEN loc.ret ELSE "upsert_author"
             /\ UNCHANGED <<db, out, now, tz, bib, lock>>

\* PRIMARY KEY (work_id, position) and UNIQUE (work_id, author_id)
AuthorshipConflict(work_authors, row) ==
  \E a \in work_authors :
     /\ a.work_id = row.work_id
     /\ (a.position = row.position \/ a.author_id = row.author_id)

\* the position taken from enumerate(authors) instead of `pos`
Position_index(apos, ai) == ai - 1

\* the position of the next authorship row: `pos`, which counts the rows
\* written, with ai the 1-based index of the name in the list
Position(apos, ai) == apos

\* upsert_work, lines 410-426: one turn of the loop over the author names
UpsertAuthor ==
  /\ pc = "upsert_author"
  /\ LET name == loc.work.authors[loc.ai]
         authors == InsertAuthor(tx.authors, name)
         author_id == AuthorId(authors, name)
         row == [work_id |-> loc.work_id, author_id |-> author_id,
                 position |-> Position(loc.apos, loc.ai)]
         done == loc.ai = Len(loc.work.authors)
     IN IF author_id \in loc.seen
        THEN /\ tx' = [tx EXCEPT !.authors = authors]
             /\ loc' = [loc EXCEPT !.ai = @ + 1]
             /\ pc' = IF done THEN loc.ret ELSE "upsert_author"
             /\ UNCHANGED <<db, out, now, tz, bib, lock>>
        ELSE IF AuthorshipConflict(tx.work_authors, row)
        THEN Raise(db, loc.cmd, "IntegrityError") /\ UNCHANGED <<now, tz, bib, lock>>
        ELSE /\ tx' = [tx EXCEPT !.authors = authors,
                         !.work_authors = @ \cup {row}]
             /\ loc' = [loc EXCEPT !.ai = @ + 1, !.seen = @ \cup {author_id},
                          !.apos = @ + 1]
             /\ pc' = IF done THEN loc.ret ELSE "upsert_author"
             /\ UNCHANGED <<db, out, now, tz, bib, lock>>

\* a ranked result that records the identifier without its version
ResultRow_unversioned(l) ==
  [search_id |-> l.search_id, position |-> l.k - 1,
   arxiv_id |-> l.work.arxiv_id,
   arxiv_id_versioned |-> l.work.arxiv_id,
   work_id |-> l.work_id]

\* the row of INSERT INTO search_results: (search_id, pos, entry["arxiv_id"],
\* entry["arxiv_id_versioned"], work_id), pos counting from 0
ResultRow(l) ==
  [search_id |-> l.search_id, position |-> l.k - 1,
   arxiv_id |-> l.work.arxiv_id,
   arxiv_id_versioned |-> l.work.arxiv_id_versioned,
   work_id |-> l.work_id]

\* cmd_search, lines 678-682: INSERT INTO search_results
SearchInsertResult ==
  /\ pc = "insert_result"
  /\ LET row == ResultRow(loc)
     IN /\ tx' = [tx EXCEPT !.search_results = @ \cup {row}]
        /\ loc' = NextEntry(loc, loc.k + 1)
        /\ pc' = IF loc.k = Len(loc.entries) THEN "commit" ELSE "upsert_row"
  /\ UNCHANGED <<db, out, now, tz, bib, lock>>

\* cmd_search, lines 684-690: conn.commit() and the report
SearchCommit ==
  /\ pc = "commit"
  /\ loc.cmd = "search"
  /\ db' = tx
  /\ pc' = "idle"
  /\ loc' = NoLoc
  /\ out' = [cmd |-> "search", kind |-> "stored", params |-> loc.params,
             fetched |-> TRUE, search_id |-> loc.search_id, meta |-> loc.meta,
             entries |-> loc.entries]
  /\ UNCHANGED <<tx, now, tz, bib, lock>>

\* the author names of a work in position order (the SELECT of work_payload)
RECURSIVE NamesFrom(_, _, _)
NamesFrom(s, work_id, position) ==
  LET at == {a \in s.work_authors : a.work_id = work_id /\ a.position = position}
  IN IF at = {} THEN <<>>
     ELSE <<s.authors[(CHOOSE a \in at : TRUE).author_id]>>
            \o NamesFrom(s, work_id, position + 1)

\* work_payload: the JSON line of a work; citation_key is <<>> for null and
\* <<key>> otherwise
work_payload(s, work_id, cite_key) ==
  [work_id |-> work_id, arxiv_id |-> s.works[work_id].arxiv_id,
   title |-> s.works[work_id].title, doi |-> s.works[work_id].doi,
   authors |-> NamesFrom(s, work_id, 0), citation_key |-> cite_key]

\* cmd_get, lines 824-825, with --ensure-key: work_payload gives the work a
\* key or raises; then the next identifier
GetLineKey(work_id) ==
  \E r \in {ensure_citation_key(tx, work_id, now_iso)} :
     IF r.raised
     THEN Raise(db, "get", "IntegrityError")
     ELSE /\ tx' = r.s
          /\ loc' = [loc EXCEPT !.i = @ + 1,
                       !.lines = Append(@, work_payload(tx, work_id, <<r.key>>))]
          /\ pc' = "get_item"
          /\ UNCHANGED <<db, out>>

\* [s.strip() for s in args.arxiv_id if s.strip()]
RECURSIVE StripAll(_)
StripAll(inputs) ==
  IF inputs = <<>> THEN <<>>
  ELSE IF Strip(Head(inputs)) = <<>> THEN StripAll(Tail(inputs))
       ELSE <<Strip(Head(inputs))>> \o StripAll(Tail(inputs))

\* cmd_get, lines 803-811
CmdGet(inputs, fetch_missing, ensure_key) ==
  /\ pc = "idle"
  /\ IF StripAll(inputs) = <<>>
     THEN /\ out' = [cmd |-> "get", kind |-> "usage"]
          /\ UNCHANGED <<db, tx, pc, loc>>
     ELSE /\ db' = init_schema(db)
          /\ tx' = init_schema(db)
          /\ pc' = "get_item"
          /\ loc' = [cmd |-> "get", ids |-> StripAll(inputs), i |-> 1,
                     fetch_missing |-> fetch_missing,
                     ensure_key |-> ensure_key, lines |-> <<>>,
                     work |-> NoWork, work_id |-> 0, ai |-> 0, seen |-> {},
                     apos |-> 0, ret |-> "get_payload"]
          /\ out' = [cmd |-> "get", kind |-> "running"]
  /\ UNCHANGED <<now, tz, bib, lock>>

\* cmd_get, lines 813-825, for an identifier that needs no fetch: a work
\* that is missing, or one that is stored and printed without --ensure-key
GetItemLocal ==
  /\ pc = "get_item"
  /\ loc.i <= Len(loc.ids)
  /\ LET arxiv_id == NormalizeArxivId(loc.ids[loc.i])[1]
         work_id == WorkByArxivId(tx.works, arxiv_id)
         line == IF work_id = 0
                 THEN [arxiv_id |-> arxiv_id, error |-> "not found"]
                 ELSE work_payload(tx, work_id, <<>>)
     IN /\ work_id # 0 \/ ~loc.fetch_missing
        /\ work_id = 0 \/ ~loc.ensure_key
        /\ loc' = [loc EXCEPT !.i = @ + 1, !.lines = Append(@, line)]
  /\ UNCHANGED <<db, tx, pc, out, now, tz, bib, lock>>

\* cmd_get, lines 813-825, for a stored work and --ensure-key
GetItemKey ==
  /\ pc = "get_item"
  /\ loc.i <= Len(loc.ids)
  /\ loc.ensure_key
  /\ LET work_id == WorkByArxivId(tx.works, NormalizeArxivId(loc.ids[loc.i])[1])
     IN work_id # 0 /\ GetLineKey(work_id)
  /\ UNCHANGED <<now, tz, bib, lock>>

\* the URL of the identifier-metadata endpoint
MetaUrl(arxiv_id) == [id_list |-> arxiv_id, max_results |-> 1]

\* cmd_get, lines 817-823, with ensure_work, lines 555-568: the work is
\* missing and --fetch-missing is given
GetItemFetch(resp) ==
  /\ pc = "get_item"
  /\ loc.i <= Len(loc.ids)
  /\ loc.fetch_missing
  /\ Len(tx.fetches) < MaxFetches
  /\ LET arxiv_id == NormalizeArxivId(loc.ids[loc.i])[1]
         missing == [arxiv_id |-> arxiv_id, error |-> "not found"]
         logged == record_fetch(tx, "arxiv_api_id_list", MetaUrl(arxiv_id),
                                resp.status, resp.body)
         entries == parse_arxiv_feed(resp.body)[2]
     IN /\ WorkByArxivId(tx.works, arxiv_id) = 0
        /\ IF resp.body.kind = "empty"
           THEN /\ loc' = [loc EXCEPT !.i = @ + 1, !.lines = Append(@, missing)]
                /\ UNCHANGED <<db, tx, pc, out>>
           ELSE IF ParseError(resp.body)
           THEN Raise(db, "get", "ParseError")
           ELSE IF entries = <<>>
           THEN /\ tx' = logged
                /\ loc' = [loc EXCEPT !.i = @ + 1, !.lines = Append(@, missing)]
                /\ UNCHANGED <<db, pc, out>>
           ELSE /\ tx' = logged
                /\ loc' = [loc EXCEPT !.work = entries[1]]
                /\ pc' = "upsert_row"
                /\ UNCHANGED <<db, out>>
  /\ UNCHANGED <<now, tz, bib, lock>>

\* cmd_get, lines 824-825, after ensure_work returned a work_id
GetPayload ==
  /\ pc = "get_payload"
  /\ ~loc.ensure_key
  /\ loc' = [loc EXCEPT !.i = @ + 1,
               !.lines = Append(@, work_payload(tx, loc.work_id, <<>>))]
  /\ pc' = "get_item"
  /\ UNCHANGED <<db, tx, out, now, tz, bib, lock>>

\* cmd_get, lines 824-825, after ensure_work returned a work_id, with
\* --ensure-key
GetPayloadKey ==
  /\ pc = "get_payload"
  /\ loc.ensure_key
  /\ GetLineKey(loc.work_id)
  /\ UNCHANGED <<now, tz, bib, lock>>

\* cmd_get, lines 827-828: conn.commit()
GetCommit ==
  /\ pc = "get_item"
  /\ loc.i > Len(loc.ids)
  /\ db' = tx
  /\ pc' = "idle"
  /\ loc' = NoLoc
  /\ out' = [cmd |-> "get", kind |-> "ok", lines |-> loc.lines]
  /\ UNCHANGED <<tx, now, tz, bib, lock>>

\* the identifiers of the ranked results of a search from a rank on, in rank
\* order (SELECT arxiv_id FROM search_results ... ORDER BY position ASC)
RECURSIVE ResultIdsFrom(_, _, _)
ResultIdsFrom(s, search_id, position) ==
  LET at == {r \in s.search_results :
               r.search_id = search_id /\ r.position = position}
  IN IF at = {} THEN <<>>
     ELSE <<(CHOOSE r \in at : TRUE).arxiv_id>>
            \o ResultIdsFrom(s, search_id, position + 1)

\* [normalize_arxiv_id(s)[0] for s in args.arxiv_id if s.strip()]
RECURSIVE NormalizeAll(_)
NormalizeAll(inputs) ==
  IF inputs = <<>> THEN <<>>
  ELSE IF Strip(Head(inputs)) = <<>> THEN NormalizeAll(Tail(inputs))
       ELSE <<NormalizeArxivId(Head(inputs))[1]>> \o NormalizeAll(Tail(inputs))

\* [a for a in arxiv_ids if a]
NonEmptyIds(ids) == SelectSeq(ids, LAMBDA a : a # <<>>)

\* cmd_export_bibtex, lines 842-861: search_id is <<>> without --search-id
ExportIds(s, search_id, inputs) ==
  NonEmptyIds((IF search_id = <<>> THEN <<>>
               ELSE ResultIdsFrom(s, search_id[1], 0)) \o NormalizeAll(inputs))

\* the local variables of fetch-bibtex and export-bibtex at the start of the
\* loop; g_attempts counts the calls of fetch_url
BibLoc(cmd, ids, refresh, out_bib, keys_in_file) ==
  [cmd |-> cmd, ids |-> ids, i |-> 1, refresh |-> refresh, out_bib |-> out_bib,
   keys_in_file |-> keys_in_file, exported |-> 0, skipped |-> 0,
   warnings |-> <<>>, printed |-> <<>>, work |-> NoWork, work_id |-> 0,
   ai |-> 0, seen |-> {}, apos |-> 0, ret |-> "bib_text", g_attempts |-> 0]

\* the identifier the loop is at: fetch-bibtex normalizes it in the loop
\* (line 705), export-bibtex before the loop (line 859)
BibId(l) ==
  IF l.cmd = "fetch-bibtex" THEN NormalizeArxivId(l.ids[l.i])[1] ELSE l.ids[l.i]

\* print("warning: ...") and continue
Warn(l, what) ==
  [l EXCEPT !.i = @ + 1,
            !.warnings = Append(@, [arxiv_id |-> BibId(l), what |-> what])]

\* fetch_url has been called once more
Attempted(l) == [l EXCEPT !.g_attempts = @ + 1]

\* cmd_fetch_bibtex, lines 694-702
CmdFetchBibtex(inputs, refresh, out_bib) ==
  /\ pc = "idle"
  /\ IF StripAll(inputs) = <<>>
     THEN /\ out' = [cmd |-> "fetch-bibtex", kind |-> "usage"]
          /\ UNCHANGED <<db, tx, pc, loc>>
     ELSE /\ db' = init_schema(db)
          /\ tx' = init_schema(db)
          /\ pc' = "bib_item"
          /\ loc' = BibLoc("fetch-bibtex", StripAll(inputs), refresh, out_bib, {})
          /\ out' = [cmd |-> "fetch-bibtex", kind |-> "running"]
  /\ UNCHANGED <<now, tz, bib, lock>>

\* cmd_export_bibtex, lines 839-876: the first block runs with --search-id
\* only; keys_in_file is read from the destination when there is one
CmdExportBibtex(search_id, inputs, refresh, out_bib) ==
  /\ pc = "idle"
  /\ LET s == IF search_id = <<>> THEN db ELSE init_schema(db)
     IN IF ExportIds(s, search_id, inputs) = <<>>
        THEN /\ db' = s
             /\ tx' = s
             /\ out' = [cmd |-> "export-bibtex", kind |-> "usage"]
             /\ UNCHANGED <<pc, loc>>
        ELSE /\ db' = init_schema(db)
             /\ tx' = init_schema(db)
             /\ pc' = "bib_item"
             /\ loc' = BibLoc("export-bibtex", ExportIds(s, search_id, inputs),
                              refresh, out_bib,
                              IF out_bib THEN existing_bibtex_keys(bib) ELSE {})
             /\ out' = [cmd |-> "export-bibtex", kind |-> "running"]
  /\ UNCHANGED <<now, tz, bib, lock>>

\* ensure_work, lines 556-558: the work is stored
BibItemLocal ==
  /\ pc = "bib_item"
  /\ loc.i <= Len(loc.ids)
  /\ WorkByArxivId(tx.works, BibId(loc)) # 0
  /\ loc' = [loc EXCEPT !.work_id = WorkByArxivId(tx.works, BibId(loc))]
  /\ pc' = "bib_text"
  /\ UNCHANGED <<db, tx, out, now, tz, bib, lock>>

\* ensure_work, lines 560-568, and the warning of its caller: the work is
\* missing and its metadata is fetched
BibItemFetch(resp) ==
  /\ pc = "bib_item"
  /\ loc.i <= Len(loc.ids)
  /\ WorkByArxivId(tx.works, BibId(loc)) = 0
  /\ LET logged == record_fetch(tx, "arxiv_api_id_list", MetaUrl(BibId(loc)),
                                resp.status, resp.body)
     IN IF resp.body.kind = "empty"
        THEN /\ loc' = Attempted(Warn(loc, "could not fetch metadata"))
             /\ UNCHANGED <<db, tx, pc, out>>
        ELSE IF ParseError(resp.body)
        THEN Raise(db, loc.cmd, "ParseError")
        ELSE IF resp.body.entries = <<>>
        THEN /\ tx' = logged
             /\ loc' = Attempted(Warn(loc, "could not fetch metadata"))
             /\ UNCHANGED <<db, pc, out>>
        ELSE /\ tx' = logged
             /\ loc' = Attempted([loc EXCEPT
                                    !.work = parse_arxiv_feed(resp.body)[2][1]])
             /\ pc' = "upsert_row"
             /\ UNCHANGED <<db, out>>
  /\ UNCHANGED <<now, tz, bib, lock>>

\* cmd_fetch_bibtex, lines 722-733, without --print-bibtex: the text is
\* appended to the destination when there is one
FetchDeliver(s, l, text) ==
  /\ tx' = s
  /\ loc' = [l EXCEPT !.i = @ + 1]
  /\ bib' = IF l.out_bib
            THEN Append(bib, [text |-> RStrip(text) \o <<"\n", "\n">>,
                              g_arxiv_id |-> BibId(l)])
            ELSE bib
  /\ pc' = "bib_item"
  /\ UNCHANGED <<db, out>>

\* cmd_export_bibtex, lines 896-910: the rewritten text is printed, skipped
\* or appended to the destination
ExportWrite(s, l, key, rewritten) ==
  /\ tx' = s
  /\ pc' = "bib_item"
  /\ UNCHANGED <<db, out>>
  /\ IF ~l.out_bib
     THEN /\ loc' = [l EXCEPT !.i = @ + 1, !.printed = Append(@, rewritten)]
          /\ bib' = bib
     ELSE IF key \in l.keys_in_file
     THEN /\ loc' = [l EXCEPT !.i = @ + 1, !.skipped = @ + 1]
          /\ bib' = bib
     ELSE /\ loc' = [l EXCEPT !.i = @ + 1, !.exported = @ + 1,
                              !.keys_in_file = @ \cup {key}]
          /\ bib' = Append(bib, [text |-> rewritten \o <<"\n">>,
                                  g_arxiv_id |-> BibId(l)])

\* cmd_export_bibtex, lines 895-913
ExportDeliver(s, l, text) ==
  \E r \in {ensure_citation_key(s, l.work_id, now_iso)} :
     IF r.raised
     THEN Raise(db, l.cmd, "IntegrityError") /\ bib' = bib
     ELSE ExportWrite(r.s, l, r.key,
                      RStrip(rewrite_bibtex_key(text, r.key)) \o <<"\n">>)

\* what the loop does with the citation text of the identifier it is at
Deliver(s, l, text) ==
  IF l.cmd = "fetch-bibtex" THEN FetchDeliver(s, l, text)
  ELSE ExportDeliver(s, l, text)

\* ensure_bibtex, lines 574-576: the text is cached and --refresh is not given
BibTextCached ==
  /\ pc = "bib_text"
  /\ CachedBibtex(tx, loc.work_id) # <<>>
  /\ ~loc.refresh
  /\ Deliver(tx, loc, CachedBibtex(tx, loc.work_id)[1])
  /\ UNCHANGED <<now, tz, lock>>

\* the row of INSERT INTO bibtex
BibtexRow(work_id, arxiv_id, body, ts) ==
  [work_id |-> work_id, fetched_at |-> ts, source_url |-> BibUrl(arxiv_id),
   sha256 |-> sha256_bytes(body), bibtex |-> BibtexText(body)]

\* ensure_bibtex, lines 582-596: the fetch is logged and the text stored
StoreBibtex(s, l, resp) ==
  [record_fetch(s, "arxiv_bibtex", BibUrl(BibId(l)), resp.status, resp.body)
     EXCEPT !.bibtex =
       UpsertBibtex(@, BibtexRow(l.work_id, BibId(l), resp.body, now_iso))]

\* a failed fetch that deletes the cached text of the work
ReturnNone_drop(s, l) ==
  [s EXCEPT !.bibtex = {r \in @ : r.work_id # l.work_id}]

\* ensure_bibtex, lines 580-581: the body is empty (fetch_url returns b"" for
\* a URLError, line 89-90), None is returned before record_fetch and before
\* the INSERT: the registry is as it was
ReturnNone(s, l) == s

\* ensure_bibtex, lines 578-597, and the warning of its caller: there is no
\* cached text, or --refresh is given
BibTextFetch(resp) ==
  /\ pc = "bib_text"
  /\ CachedBibtex(tx, loc.work_id) = <<>> \/ loc.refresh
  /\ IF resp.body.kind = "empty"
     THEN /\ loc' = Attempted(Warn(loc, "empty BibTeX"))
          /\ pc' = "bib_item"
          /\ tx' = ReturnNone(tx, loc)
          /\ UNCHANGED <<db, out, bib>>
     ELSE Deliver(StoreBibtex(tx, loc, resp), Attempted(loc),
                  BibtexText(resp.body))
  /\ UNCHANGED <<now, tz, lock>>

\* cmd_fetch_bibtex, lines 735-738, and cmd_export_bibtex, lines 915-919:
\* conn.commit() and the report
BibCommit ==
  /\ pc = "bib_item"
  /\ loc.i > Len(loc.ids)
  /\ db' = tx
  /\ pc' = "idle"
  /\ loc' = NoLoc
  /\ out' = [cmd |-> loc.cmd, kind |-> "ok", ids |-> loc.ids,
             warnings |-> loc.warnings, exported |-> loc.exported,
             skipped |-> loc.skipped, printed |-> loc.printed,
             attempts |-> loc.g_attempts]
  /\ UNCHANGED <<tx, now, tz, bib, lock>>

\* cmd_stats: on a registry file without schema the SELECT of
\* ensure_initialized raises sqlite3.OperationalError (no such table)
CmdStats ==
  /\ pc = "idle"
  /\ out' = IF ~ensure_initialized(db)
            THEN [cmd |-> "stats", kind |-> "exception",
                  what |-> "OperationalError", step |-> "ensure_initialized"]
            ELSE [cmd |-> "stats", kind |-> "ok", works |-> Len(db.works),
                  searches |-> Len(db.searches),
                  bibtex |-> Cardinality(db.bibtex)]
  /\ UNCHANGED <<db, tx, pc, loc, now, tz, bib, lock>>

\* normalize_arxiv_id applied to the argument loc.value
Normalize ==
  /\ pc = "idle"
  /\ loc.cmd = "normalize"
  /\ out.kind = "none"
  /\ out' = [cmd |-> "normalize_arxiv_id", kind |-> "ok", value |-> loc.value,
             base |-> NormalizeArxivId(loc.value)[1],
             versioned |-> NormalizeArxivId(loc.value)[2]]
  /\ UNCHANGED <<db, tx, pc, loc, now, tz, bib, lock>>

\* normalize_arxiv_id applied to the base identifier it returned
NormalizeBase ==
  /\ pc = "idle"
  /\ out.cmd = "normalize_arxiv_id"
  /\ out.kind = "ok"
  /\ out' = [cmd |-> "normalize_arxiv_id", kind |-> "again", value |-> out.base,
             base |-> NormalizeArxivId(out.base)[1],
             versioned |-> NormalizeArxivId(out.base)[2]]
  /\ UNCHANGED <<db, tx, pc, loc, now, tz, bib, lock>>

\* rewrite_bibtex_key applied to the text and key of loc
Rewrite ==
  /\ pc = "idle"
  /\ loc.cmd = "rewrite"
  /\ out.kind = "none"
  /\ out' = [cmd |-> "rewrite_bibtex_key", kind |-> "ok", text |-> loc.text,
             key |-> loc.key, value |-> rewrite_bibtex_key(loc.text, loc.key)]
  /\ UNCHANGED <<db, tx, pc, loc, now, tz, bib, lock>>

\* parse_arxiv_feed applied to the markup of loc: the summary and the
\* optional fields of the record of its entry
ParseMarkup ==
  /\ pc = "idle"
  /\ loc.cmd = "parse"
  /\ out.kind = "none"
  /\ out' = [cmd |-> "parse_arxiv_feed", kind |-> "ok",
             meta |-> ParseMeta(loc.root), entry |-> ParseOptional(loc.entry)]
  /\ UNCHANGED <<db, tx, pc, loc, now, tz, bib, lock>>

\* a statement of the running command raises (disk, lock, interrupt): the
\* `with` block rolls the transaction back and the command ends
Fail ==
  /\ pc # "idle"
  /\ Raise(db, loc.cmd, "Error")
  /\ UNCHANGED <<now, tz, bib, lock>>

\* a second passes between two commands
Tick ==
  /\ pc = "idle"
  /\ now < MaxTime
  /\ now' = now + 1
  /\ UNCHANGED <<db, tx, pc, loc, out, tz, bib, lock>>

\* the local time zone changes its offset between two commands
TzChange ==
  /\ pc = "idle"
  /\ tz' \in TzOffsets \ {tz}
  /\ UNCHANGED <<db, tx, pc, loc, out, now, bib, lock>>

(***************************************************************************)
(* Specifications.  Spec drives the store with many different records and  *)
(* a clock that stands still, and follows a search while the tables have   *)
(* room for its rows; SpecCache drives the search cache with several       *)
(* requests, windows, instants and offsets of the local time zone and one  *)
(* record, and lets a search consult the cache whatever the tables hold.   *)
(***************************************************************************)
\* request parameters of a search
BaseParams ==
  [query |-> <<"q">>, start |-> 0, max_results |-> 5, sort_by |-> "relevance",
   sort_order |-> "descending"]

BlankParams == [BaseParams EXCEPT !.query = <<" ">>]

Counted == [total_results |-> <<"1", "2">>, items_per_page |-> <<"5">>,
            start_index |-> <<"0">>]

Uncounted == [total_results |-> <<"n", "a">>, items_per_page |-> <<>>,
              start_index |-> <<>>]

\* counters of which one is written with a digit that is not a decimal digit
Superscript == [Counted EXCEPT !.total_results = <<"^2">>]

\* the records of Spec: version 1 of a paper is a full record, version 2 a
\* sparse one
StoreEntries ==
  {e \in RawEntries : (e.id = AbsUrl(<<"1", "v", "2">>)) <=> (e.v = "sparse")}

\* the bodies the remote may answer with in Spec: every one-entry feed, the
\* two-entry feeds whose entries claim the same DOI, and a feed without entries
StoreBodies ==
  {Feed(Counted, <<e>>) : e \in StoreEntries}
    \cup {Feed(Counted, <<a, b>>) :
            a \in {e \in StoreEntries : e.doi = "d1" /\ e.id = AbsUrl(<<"1", "v", "1">>)},
            b \in {e \in StoreEntries : e.doi = "d1" /\ e.id # AbsUrl(<<"1", "v", "1">>)}}
    \cup {Feed(Uncounted, <<>>), Feed(Superscript, <<>>)}

StoreResponses ==
  {Ok200(b) : b \in StoreBodies} \cup {TransportFailure, Ok200(MalformedBody)}

\* the identifier lists given to get
GetInputs == {<<<<"2", "v", "1">>>>, <<<<" ">>>>}

\* the windows (--cache-ttl-s) of Spec
StoreTtls == {1}

\* the requests of SpecCache: they differ from BaseParams in the last
\* character of the query, or in the offset
CacheParams == {BaseParams, [BaseParams EXCEPT !.query = <<"q", " ">>]}

CacheTtls == {0, 1}

\* the body the remote answers with in SpecCache: a feed of one entry
CacheBodies ==
  {Feed(Counted, <<e>>) :
     e \in {r \in StoreEntries : r.doi = NULL /\ r.id = AbsUrl(<<"1", "v", "1">>)}}

CacheResponses == {Ok200(b) : b \in CacheBodies}

\* an entry whose title has a letter outside ASCII
AccentEntry ==
  [id |-> AbsUrl(<<"2", "v", "1">>), v |-> "accent", opt |-> "none", doi |-> NULL]

\* the bodies of SpecReplay: feeds of ASCII and of accented entries in the
\* encodings UTF-8, Latin-1 and UTF-16, each naming its encoding
ReplayBodies ==
  {[Feed(c, es) EXCEPT !.enc = enc] :
     c \in {Counted, Uncounted},
     es \in {<<>>, <<AccentEntry>>,
             <<[AccentEntry EXCEPT !.v = "sparse"], AccentEntry>>},
     enc \in {"utf-8", "latin-1", "utf-16"}}

ReplayResponses == {Ok200(b) : b \in ReplayBodies}

\* the steps of a command that every specification has
Steps ==
  \/ SearchRecordFetch
  \/ SearchInsert
  \/ UpsertWorkRow
  \/ UpsertAuthor
  \/ SearchInsertResult
  \/ SearchCommit
  \/ Fail

Next ==
  \/ CmdInit
  \/ CmdSearchBlank(BlankParams)
  \/ \E ttl \in StoreTtls : CmdSearchHit(BaseParams, ttl)
  \/ \E ttl \in StoreTtls, refresh \in BOOLEAN, resp \in StoreResponses :
       /\ Len(db.searches) < MaxSearches
       /\ Len(db.fetches) < MaxFetches
       /\ CmdSearchMiss(BaseParams, ttl, refresh, resp)
  \/ \E inputs \in GetInputs, fm \in BOOLEAN : CmdGet(inputs, fm, FALSE)
  \/ GetItemLocal
  \/ \E resp \in StoreResponses : GetItemFetch(resp)
  \/ GetPayload
  \/ GetCommit
  \/ Steps

Spec == Init /\ [][Next]_vars

NextCache ==
  \/ CmdInit
  \/ CmdSearchBlank(BlankParams)
  \/ \E p \in CacheParams, ttl \in CacheTtls : CmdSearchHit(p, ttl)
  \/ \E p \in CacheParams, ttl \in CacheTtls, refresh \in BOOLEAN,
        resp \in CacheResponses : CmdSearchMiss(p, ttl, refresh, resp)
  \/ Tick
  \/ TzChange
  \/ Steps

SpecCache == Init /\ [][NextCache]_vars

NextReplay ==
  \/ CmdInit
  \/ \E ttl \in StoreTtls : CmdSearchHit(BaseParams, ttl)
  \/ \E ttl \in StoreTtls, refresh \in BOOLEAN, resp \in ReplayResponses :
       CmdSearchMiss(BaseParams, ttl, refresh, resp)
  \/ Steps

SpecReplay == Init /\ [][NextReplay]_vars

\* the base identifiers of two papers, in the new and in the old scheme
PaperIds == {<<"2", "3", ".", "1">>, <<"h", "-", "t", "/", "9">>}

AbsPrefix == <<"h", "t", "t", "p", "s", ":", "/", "/", "a", ".", "o", "/", "a", "b", "s", "/">>

PdfPrefix == <<"h", "t", "t", "p", "s", ":", "/", "/", "a", ".", "o", "/", "p", "d", "f", "/">>

DotPdf == <<".", "p", "d", "f">>

\* the accepted shapes of the identifier of a paper: bare or inside the URL
\* of the abstract page or of the document, with or without a version, a
\* .pdf extension, an "arXiv:" prefix, a trailing slash, a query string and
\* surrounding white space
AcceptedInputs ==
  {[cmd |-> "normalize", paper |-> <<id>>,
    value |-> ws \o prefix \o url \o id \o version \o ext \o slash \o query \o ws] :
     id \in PaperIds,
     version \in {<<>>, <<"v", "1">>, <<"v", "1", "2">>},
     url \in {<<>>, AbsPrefix, PdfPrefix},
     ext \in {<<>>, DotPdf},
     prefix \in {<<>>, <<"a", "r", "X", "i", "v", ":">>, <<"A", "R", "X", "I", "V", ":", " ">>},
     slash \in {<<>>, <<"/">>},
     query \in {<<>>, <<"?", "v", "=", "1">>},
     ws \in {<<>>, <<" ">>}}

Fragments ==
  {<<"1">>, <<"v", "1">>, <<"/">>, <<" ">>, <<"?">>, DotPdf,
   <<"a", "r", "x", "i", "v", ":">>, <<"/", "a", "b", "s", "/">>}

\* free-form arguments: every text of at most MaxFragments fragments
FreeInputs ==
  {[cmd |-> "normalize", paper |-> <<>>, value |-> Concat(f)] :
     f \in UNION {[1..n -> Fragments] : n \in 0..MaxFragments}}

\* SpecNorm: normalize_arxiv_id on one argument, then on its own result
InitNorm ==
  /\ db = EmptyStore
  /\ tx = EmptyStore
  /\ pc = "idle"
  /\ loc \in AcceptedInputs \cup FreeInputs
  /\ out = [cmd |-> "none", kind |-> "none"]
  /\ now = 0
  /\ tz = 0
  /\ bib = <<>>
  /\ lock = "free"

NextNorm ==
  \/ Normalize
  \/ NormalizeBase

SpecNorm == InitNorm /\ [][NextNorm]_vars

\* the pieces of the citation texts given to rewrite_bibtex_key: the opening
\* of an entry, a key, white space, a comma, a field, the end of an entry and
\* an entry without a comma
Pieces ==
  {<<"@", "m", "{">>, <<"k">>, <<" ">>, <<",">>, <<"t", "=", "1">>,
   <<"}", "\n">>, <<"@", "s", "{", "x", "}">>}

\* the citation texts: every text of at most MaxPieces pieces
RewriteInputs ==
  {[cmd |-> "rewrite", text |-> Concat(f), key |-> <<"n", "9">>] :
     f \in UNION {[1..n -> Pieces] : n \in 0..MaxPieces}}

\* SpecRewrite: rewrite_bibtex_key on one citation text
InitRewrite ==
  /\ db = EmptyStore
  /\ tx = EmptyStore
  /\ pc = "idle"
  /\ loc \in RewriteInputs
  /\ out = [cmd |-> "none", kind |-> "none"]
  /\ now = 0
  /\ tz = 0
  /\ bib = <<>>
  /\ lock = "free"

NextRewrite == Rewrite

SpecRewrite == InitRewrite /\ [][NextRewrite]_vars

\* the optional text elements of SpecMarkup: missing, without content, of
\* white space only, and with words between white space
TextNodes ==
  {<<>>, <<<<>>>>, <<<<" ", "\n">>>>, <<<<" ", "a", " ", "\n", "b", " ">>>>}

\* the elements arxiv:primary_category: missing, without the attribute term,
\* with an empty term and with a term
PrimaryNodes ==
  {<<>>, <<[scheme |-> <<"s">>]>>, <<[term |-> <<>>]>>, <<[term |-> <<"c", "s">>]>>}

\* the lists of atom:link elements
LinkLists ==
  {<<>>,
   <<[rel |-> Alternate, type |-> TextHtml]>>,
   <<[href |-> <<" ">>, rel |-> Alternate, type |-> TextHtml],
     [href |-> <<"u">>, rel |-> Alternate, type |-> TextHtml],
     [href |-> <<"p">>, type |-> ApplicationPdf]>>,
   <<[href |-> <<" ", "p", " ">>, type |-> <<" ">> \o ApplicationPdf],
     [href |-> <<"u">>, rel |-> <<"r">>, type |-> TextHtml]>>}

\* the markup given to parse_arxiv_feed in SpecMarkup: a feed of one entry
MarkupInputs ==
  {[cmd |-> "parse",
    root |-> [updated |-> c, totalResults |-> c, itemsPerPage |-> <<>>,
              startIndex |-> c],
    entry |-> [summary |-> a, published |-> b, updated |-> b, comment |-> d,
               journal_ref |-> d, doi |-> d, primary_category |-> p,
               link |-> l]] :
     a \in TextNodes, b \in TextNodes, c \in TextNodes, d \in TextNodes,
     p \in PrimaryNodes, l \in LinkLists}

\* SpecMarkup: parse_arxiv_feed on one feed
InitMarkup ==
  /\ db = EmptyStore
  /\ tx = EmptyStore
  /\ pc = "idle"
  /\ loc \in MarkupInputs
  /\ out = [cmd |-> "none", kind |-> "none"]
  /\ now = 0
  /\ tz = 0
  /\ bib = <<>>
  /\ lock = "free"

NextMarkup == ParseMarkup

SpecMarkup == InitMarkup /\ [][NextMarkup]_vars

\* identifiers of four papers whose last six digits are the same
KeyId(n) == <<n, "0", "0", "0", "0", "0", "1">>

\* the records of SpecKeys: three papers whose base keys are equal, one whose
\* title token is that of the others followed by a digit, and a later version
\* of the first paper's record with another title, date and no author
KeyEntries ==
  [a |-> TextEntry(KeyId("1"), <<"Doe, Jane", "x">>, "2023-05-01", "Scaling Transformers"),
   c |-> TextEntry(KeyId("2"), <<"Jane Doe">>, "2023-07-09", "Scaling up"),
   w |-> TextEntry(KeyId("3"), <<"Doe, Jane">>, "2023-05-01", "Scaling Transformers"),
   d |-> TextEntry(KeyId("4"), <<"Doe, Jane">>, "2023-05-01", "Scaling3 laws"),
   a2 |-> TextEntry(KeyId("1"), <<>>, NULL, "???")]

KeyBodies ==
  {Feed(Counted, <<KeyEntries.a, KeyEntries.c>>),
   Feed(Counted, <<KeyEntries.w, KeyEntries.d>>),
   Feed(Counted, <<KeyEntries.a2>>)}

KeyResponses == {Ok200(b) : b \in KeyBodies}

\* the identifier lists given to get --ensure-key in SpecKeys
KeyInputs == {<<KeyId(n)>> : n \in {"1", "2", "3", "4"}}

NextKeys ==
  \/ \E resp \in KeyResponses :
       /\ Len(db.searches) < MaxSearches
       /\ Len(db.fetches) < MaxFetches
       /\ CmdSearchMiss(BaseParams, 0, TRUE, resp)
  \/ \E inputs \in KeyInputs, fm \in BOOLEAN : CmdGet(inputs, fm, TRUE)
  \/ GetItemLocal
  \/ GetItemKey
  \/ \E resp \in KeyResponses : GetItemFetch(resp)
  \/ GetPayloadKey
  \/ GetCommit
  \/ Steps

SpecKeys == Init /\ [][NextKeys]_vars

\* the records of SpecBase: one paper with every combination of these author
\* lists, published dates and titles
BaseAuthors ==
  {<<>>, <<"Doe, Jane">>, <<"Jane Doe", "x">>, <<", Jane">>, <<"R. <U+00DC>lo">>}

BasePublished == {NULL, "", "2023-05-01", "May 2023"}

BaseTitles == {"", "???", "Scaling Transformers", "Scaling up", "(3D) things"}

BaseBodies ==
  {Feed(Counted, <<TextEntry(KeyId("1"), a, p, t)>>) :
     a \in BaseAuthors, p \in BasePublished, t \in BaseTitles}

BaseResponses == {Ok200(b) : b \in BaseBodies}

\* SpecBase: one search stores one paper, and get --ensure-key gives it a key
NextBase ==
  \/ \E resp \in BaseResponses :
       /\ db.works = <<>>
       /\ CmdSearchMiss(BaseParams, 0, TRUE, resp)
  \/ CmdGet(<<KeyId("1")>>, FALSE, TRUE)
  \/ GetItemLocal
  \/ GetItemKey
  \/ GetCommit
  \/ Steps

SpecBase == Init /\ [][NextBase]_vars

\* the records of SpecBib: a full record of paper 1 and a sparse one of
\* paper 2
BibEntries ==
  <<[id |-> AbsUrl(<<"1", "v", "1">>), v |-> "full", opt |-> "set", doi |-> NULL],
    [id |-> AbsUrl(<<"2", "v", "1">>), v |-> "sparse", opt |-> "none", doi |-> NULL]>>

\* a feed of one record that breaks off before its end
Truncated == [Feed(Counted, <<BibEntries[1]>>) EXCEPT !.kind = "malformed"]

\* what the remote answers to an identifier-metadata lookup in SpecBib: the
\* record of the paper, a feed without entries, a feed that breaks off, and
\* nothing
MetaResponses ==
  {Ok200(Feed(Counted, <<BibEntries[1]>>)), Ok200(Feed(Counted, <<BibEntries[2]>>)),
   Ok200(Feed(Uncounted, <<>>)), Ok200(Truncated), TransportFailure}

\* the remote answers a lookup with the record of the identifier asked for
Answers(resp, arxiv_id) ==
  IF resp.body.entries = <<>> THEN TRUE
  ELSE parse_arxiv_feed(resp.body)[2][1].arxiv_id = arxiv_id

\* the bytes of a citation-text response
BibBody(text) == [kind |-> "bibtex", text |-> text]

\* what the remote answers to a citation-text fetch: an entry, the same
\* entry with other white space and another field, an error page served
\* with status 404, and nothing
BibResponses ==
  {Ok200(BibBody(<<"@", "m", "{", "o", ",", "t", "}">>)),
   Ok200(BibBody(<<"@", "m", "{", "o", " ", ",", "u", "}", "\n">>)),
   [status |-> <<404>>, body |-> BibBody(<<"<", "p", ">">>)],
   TransportFailure}

\* the identifier lists given to fetch-bibtex and export-bibtex
BibInputs ==
  {<<<<"1">>>>, <<<<"2">>, <<"1", "v", "3">>>>, <<<<"1">>, <<"1">>>>, <<<<" ">>>>}

\* the response is written to the fetch log and the log is kept: it is not
\* empty and the parser accepts it
Logged(resp) == resp.body.kind # "empty" /\ ~ParseError(resp.body)

\* SpecBib: one search, fetch-bibtex, export-bibtex with and without a
\* destination file, and stats; the fetch log holds MaxBibFetches rows
NextBib ==
  \/ CmdInit
  \/ CmdStats
  \/ /\ db.searches = <<>>
     /\ db.fetches = <<>>
     /\ CmdSearchMiss(BaseParams, 0, TRUE, Ok200(Feed(Counted, BibEntries)))
  \/ \E inputs \in BibInputs, refresh \in BOOLEAN :
       CmdFetchBibtex(inputs, refresh, FALSE)
  \/ \E search_id \in {<<>>, <<1>>}, inputs \in BibInputs \cup {<<>>},
        out_bib \in BOOLEAN :
       /\ out_bib => Len(bib) + Len(ExportIds(db, search_id, inputs)) <= MaxBibEntries
       /\ CmdExportBibtex(search_id, inputs, FALSE, out_bib)
  \/ BibItemLocal
  \/ \E resp \in MetaResponses :
       /\ pc = "bib_item" /\ loc.i <= Len(loc.ids)
       /\ Logged(resp) => Len(tx.fetches) < MaxBibFetches
       /\ Answers(resp, BibId(loc))
       /\ BibItemFetch(resp)
  \/ BibTextCached
  \/ \E resp \in BibResponses :
       /\ Logged(resp) => Len(tx.fetches) < MaxBibFetches
       /\ BibTextFetch(resp)
  \/ BibCommit
  \/ Steps

SpecBib == Init /\ [][NextBib]_vars

\* the local variables of a command of SpecLock: stage 1 is the first
\* `with connect(...)` block of the command and stage 2 the second, waited
\* the seconds the busy handler has slept in this block, idle the seconds
\* since the socket last delivered something, got the bytes read so far
LockLoc(cmd) == [cmd |-> cmd, stage |-> 1, waited |-> 0, idle |-> 0, got |-> 0]

\* a busy handler that gives up at the first contention
BusyExpired_first(waited) == TRUE

\* the busy handler of busy_timeout gives up once the time slept reaches it
BusyExpired(waited) == waited >= busy_timeout

\* cmd_init and cmd_search start: connect and the first write, init_schema
LockBegin(cmd) ==
  /\ pc = "idle"
  /\ pc' = "write"
  /\ loc' = LockLoc(cmd)
  /\ out' = [cmd |-> cmd, kind |-> "running"]
  /\ UNCHANGED <<db, tx, now, tz, bib, lock>>

\* the write lock is free: init_schema writes and the block commits; search
\* goes on to fetch_url after its first block and ends after its second
WriteAcquire ==
  /\ pc = "write"
  /\ lock = "free"
  /\ db' = init_schema(db)
  /\ tx' = init_schema(db)
  /\ IF loc.cmd = "search" /\ loc.stage = 1
     THEN /\ pc' = "fetch"
          /\ loc' = [loc EXCEPT !.stage = 2, !.waited = 0]
          /\ out' = out
     ELSE /\ pc' = "idle"
          /\ loc' = NoLoc
          /\ out' = [cmd |-> loc.cmd, kind |-> "ok", waited |-> loc.waited]
  /\ UNCHANGED <<now, tz, bib, lock>>

\* the write lock is held by another invocation: the busy handler sleeps
BusyWait ==
  /\ pc = "write"
  /\ lock = "other"
  /\ ~BusyExpired(loc.waited)
  /\ loc' = [loc EXCEPT !.waited = @ + 1]
  /\ UNCHANGED <<db, tx, pc, out, now, tz, bib, lock>>

\* the busy handler gives up: sqlite3.OperationalError, database is locked
BusyTimeout ==
  /\ pc = "write"
  /\ lock = "other"
  /\ BusyExpired(loc.waited)
  /\ Raise(db, loc.cmd, "OperationalError")
  /\ UNCHANGED <<now, tz, bib, lock>>

\* another invocation of the program begins a write transaction
OtherBegin ==
  /\ lock = "free"
  /\ lock' = "other"
  /\ UNCHANGED <<db, tx, pc, loc, out, now, tz, bib>>

\* the other invocation commits
OtherCommit ==
  /\ lock = "other"
  /\ lock' = "free"
  /\ UNCHANGED <<db, tx, pc, loc, out, now, tz, bib>>

\* fetch_url: the remote sends a piece of its response; the socket operation
\* that was waiting returns and the next one starts with a new timeout
RemoteSend ==
  /\ pc = "fetch"
  /\ loc' = [loc EXCEPT !.idle = 0,
                        !.got = IF @ < MaxBytes THEN @ + 1 ELSE @]
  /\ UNCHANGED <<db, tx, pc, out, now, tz, bib, lock>>

\* fetch_url: the remote ends its response (resp.read() returns), or the
\* connection fails (URLError) before anything was read; cmd_search returns
\* 2 on an empty body and opens its second block otherwise
RemoteClose ==
  /\ pc = "fetch"
  /\ IF loc.got = 0
     THEN /\ pc' = "idle"
          /\ loc' = NoLoc
          /\ out' = [cmd |-> loc.cmd, kind |-> "empty"]
     ELSE /\ pc' = "write"
          /\ loc' = [loc EXCEPT !.idle = 0]
          /\ out' = out
  /\ UNCHANGED <<db, tx, now, tz, bib, lock>>

\* fetch_url: a second passes in which the socket delivers nothing
TimerTick ==
  /\ pc = "fetch"
  /\ loc.idle < timeout_s
  /\ loc' = [loc EXCEPT !.idle = @ + 1]
  /\ UNCHANGED <<db, tx, pc, out, now, tz, bib, lock>>

\* fetch_url: the socket operation has waited timeout_s seconds: TimeoutError,
\* which fetch_url does not catch
ReadTimeout ==
  /\ pc = "fetch"
  /\ loc.idle >= timeout_s
  /\ Raise(db, loc.cmd, "TimeoutError")
  /\ UNCHANGED <<now, tz, bib, lock>>

\* the steps of the invocation that wait for the write lock
WriteStep == WriteAcquire \/ BusyWait \/ BusyTimeout

\* the steps of the timeout of the socket
TimerStep == TimerTick \/ ReadTimeout

\* SpecLock: init and search next to another invocation that takes and
\* releases the write lock, and a remote that sends as it likes
NextLock ==
  \/ \E cmd \in {"init", "search"} : LockBegin(cmd)
  \/ WriteAcquire
  \/ BusyWait
  \/ BusyTimeout
  \/ OtherBegin
  \/ OtherCommit
  \/ RemoteSend
  \/ RemoteClose
  \/ TimerTick
  \/ ReadTimeout

SpecLock == Init /\ [][NextLock]_vars

\* SpecLive: SpecLock where the invocation keeps running and the seconds of
\* the socket timeout keep passing; the remote and the other invocation are
\* free to stop
SpecLive == SpecLock /\ WF_vars(WriteStep) /\ WF_vars(TimerStep)

\* SpecAnswer: fetch-bibtex where the remote answers a metadata lookup with
\* any of its responses, whatever identifier was asked for
NextAnswer ==
  \/ CmdInit
  \/ \E inputs \in BibInputs : CmdFetchBibtex(inputs, FALSE, FALSE)
  \/ BibItemLocal
  \/ \E resp \in MetaResponses :
       /\ Logged(resp) => Len(tx.fetches) < MaxBibFetches
       /\ BibItemFetch(resp)
  \/ BibTextCached
  \/ \E resp \in BibResponses :
       /\ Logged(resp) => Len(tx.fetches) < MaxBibFetches
       /\ BibTextFetch(resp)
  \/ BibCommit
  \/ UpsertWorkRow
  \/ UpsertAuthor
  \/ Fail

SpecAnswer == Init /\ [][NextAnswer]_vars

\* the two invocations of get --ensure-key of SpecRace and the Work each asks
\* a key for
Procs == {"A", "B"}

RaceWork(p, first) == IF p = "A" THEN first ELSE 3 - first

\* the local variables of the two invocations: at is the statement the
\* invocation is at, cand the candidate it has chosen, tx the registry as its
\* connection sees it
RaceLoc(s, first) ==
  [cmd |-> "get",
   procs |-> [p \in Procs |->
                [at |-> "select", work_id |-> RaceWork(p, first),
                 cand |-> [base |-> <<>>, key |-> <<>>], tx |-> s]]]

\* the invocation p is at this statement
RaceAt(p, at) == pc = "race" /\ loc.procs[p].at = at

\* two invocations of get --ensure-key start on a registry that holds both
\* Works; A asks for the Work first and B for the other
RaceBegin(first) ==
  /\ pc = "idle"
  /\ Len(db.works) >= 2
  /\ pc' = "race"
  /\ loc' = RaceLoc(db, first)
  /\ out' = [cmd |-> "get", kind |-> "running"]
  /\ UNCHANGED <<db, tx, now, tz, bib, lock>>

\* ensure_citation_key, lines 500-531: the key of the work and the first
\* candidate are looked up in what is committed
RaceSelect(p) ==
  /\ RaceAt(p, "select")
  /\ LET w == loc.procs[p].work_id
         base == WorkBaseKey(db, w)
     IN loc' = [loc EXCEPT !.procs[p] =
                  IF KeyOf(db, w) # <<>>
                  THEN [@ EXCEPT !.at = "done"]
                  ELSE IF ~Taken(db, base, w)
                  THEN [@ EXCEPT !.at = "insert",
                                 !.cand = [base |-> base, key |-> base]]
                  ELSE [@ EXCEPT !.at = "select2",
                                 !.cand = [base |-> base, key |-> base]]]
  /\ UNCHANGED <<db, tx, pc, out, now, tz, bib, lock>>

\* ensure_citation_key, lines 533-538: the second candidate is looked up,
\* the third is not
RaceSelect2(p) ==
  /\ RaceAt(p, "select2")
  /\ LET w == loc.procs[p].work_id
         base == loc.procs[p].cand.base
         second == base \o Suffix(db.works[w].arxiv_id, w)
     IN loc' = [loc EXCEPT !.procs[p].at = "insert",
                           !.procs[p].cand.key =
                              IF ~Taken(db, second, w) THEN second
                              ELSE base \o Str(w)]
  /\ UNCHANGED <<db, tx, pc, out, now, tz, bib, lock>>

\* ensure_citation_key, lines 540-543: the INSERT begins the transaction of
\* the connection, takes the write lock and is checked against what is
\* committed
RaceInsert(p) ==
  /\ RaceAt(p, "insert")
  /\ lock = "free"
  /\ \E r \in {Insert(db, loc.procs[p].work_id, loc.procs[p].cand, now_iso)} :
       IF r.raised
       THEN /\ loc' = [loc EXCEPT !.procs[p].at = "failed"]
            /\ lock' = lock
       ELSE /\ loc' = [loc EXCEPT !.procs[p].at = "commit", !.procs[p].tx = r.s]
            /\ lock' = p
  /\ UNCHANGED <<db, tx, pc, out, now, tz, bib>>

\* the other invocation holds the write lock for busy_timeout: the INSERT
\* raises OperationalError, database is locked
RaceLocked(p) ==
  /\ RaceAt(p, "insert")
  /\ lock \in Procs \ {p}
  /\ loc' = [loc EXCEPT !.procs[p].at = "failed"]
  /\ UNCHANGED <<db, tx, pc, out, now, tz, bib, lock>>

\* cmd_get, line 827: conn.commit()
RaceCommit(p) ==
  /\ RaceAt(p, "commit")
  /\ db' = loc.procs[p].tx
  /\ tx' = loc.procs[p].tx
  /\ lock' = "free"
  /\ loc' = [loc EXCEPT !.procs[p].at = "done"]
  /\ UNCHANGED <<pc, out, now, tz, bib>>

\* both invocations have ended
RaceEnd ==
  /\ pc = "race"
  /\ \A p \in Procs : loc.procs[p].at \in {"done", "failed"}
  /\ pc' = "idle"
  /\ loc' = NoLoc
  /\ out' = [cmd |-> "get", kind |-> "ok",
             ended |-> [p \in Procs |-> loc.procs[p].at]]
  /\ UNCHANGED <<db, tx, now, tz, bib, lock>>

\* SpecRace: a search stores two Works with the same base key, then two
\* invocations of get --ensure-key run side by side, one for each Work
NextRace ==
  \/ CmdInit
  \/ /\ db.searches = <<>>
     /\ CmdSearchMiss(BaseParams, 0, TRUE,
                      Ok200(Feed(Counted, <<KeyEntries.a, KeyEntries.c>>)))
  \/ \E first \in {1, 2} : RaceBegin(first)
  \/ \E p \in Procs : RaceSelect(p)
  \/ \E p \in Procs : RaceSelect2(p)
  \/ \E p \in Procs : RaceInsert(p)
  \/ \E p \in Procs : RaceLocked(p)
  \/ \E p \in Procs : RaceCommit(p)
  \/ RaceEnd
  \/ Steps

SpecRace == Init /\ [][NextRace]_vars

\* SpecRefresh: one search, fetch-bibtex of one paper with and without
\* --refresh, and the clock; the fetch log holds MaxRefreshFetches rows
NextRefresh ==
  \/ CmdInit
  \/ /\ db.searches = <<>>
     /\ Len(db.fetches) < MaxRefreshFetches
     /\ CmdSearchMiss(BaseParams, 0, TRUE, Ok200(Feed(Counted, BibEntries)))
  \/ \E refresh \in BOOLEAN : CmdFetchBibtex(<<<<"1">>>>, refresh, FALSE)
  \/ BibItemLocal
  \/ /\ Len(tx.fetches) < MaxRefreshFetches
     /\ BibItemFetch(Ok200(Feed(Counted, <<BibEntries[1]>>)))
  \/ BibTextCached
  \/ \E resp \in BibResponses :
       /\ Logged(resp) => Len(tx.fetches) < MaxRefreshFetches
       /\ BibTextFetch(resp)
  \/ BibCommit
  \/ Tick
  \/ Steps

SpecRefresh == Init /\ [][NextRefresh]_vars

(***************************************************************************)
(* Properties.  Helpers first: what the properties read from a state.      *)
(***************************************************************************)
\* the names of a list in order, a repeated name kept at its first occurrence
RECURSIVE FirstOccurrences(_, _)
FirstOccurrences(names, seen) ==
  IF names = <<>> THEN <<>>
  ELSE IF Head(names) \in seen THEN FirstOccurrences(Tail(names), seen)
       ELSE <<Head(names)>> \o FirstOccurrences(Tail(names), seen \cup {Head(names)})

\* the authorship rows of a work
AuthorshipOf(s, work_id) == {a \in s.work_authors : a.work_id = work_id}

\* the authorship rows of the work are exactly these names at positions 0..n-1
AuthorshipIs(s, work_id, names) ==
  /\ Cardinality(AuthorshipOf(s, work_id)) = Len(names)
  /\ \A p \in 1..Len(names) :
       \E a \in AuthorshipOf(s, work_id) :
          /\ a.position = p - 1
          /\ a.author_id \in 1..Len(s.authors)
          /\ s.authors[a.author_id] = names[p]

\* no two rows of works hold the same identifier
UniqueIds(s) ==
  \A i, j \in 1..Len(s.works) :
     s.works[i].arxiv_id = s.works[j].arxiv_id => i = j

\* the row of works that holds the identifier, as a set of keys
RowsWithId(works, arxiv_id) ==
  {i \in 1..Len(works) : works[i].arxiv_id = arxiv_id}

\* upsert_work has just returned a work_id to its caller
UpsertReturned == pc \in {"insert_result", "get_payload"}

\* the step in which the INSERT ... ON CONFLICT of upsert_work ran to its end
UpsertRan == pc = "upsert_row" /\ pc' # "idle"

\* the columns of works an upsert coalesces
Sticky == {"doi", "comment", "abs_url", "pdf_url"}

\* no column of Sticky goes from a value to NULL between two versions of a row
NoNulling(old, new) == \A f \in Sticky : old[f] # NULL => new[f] # NULL

----
\* C1: the registry holds one Work row per base identifier (in the committed
\* store and in the view of the running command); upsert_work returns the key
\* of the row that held the identifier before the call when there was one and
\* the key of one new row otherwise, the row it returns holds the record's
\* identifier, and no step changes the identifier of a row.
C1_OneWorkPerIdentifier ==
  [][/\ UniqueIds(db') /\ UniqueIds(tx')
     /\ \A i \in 1..Len(db.works) :
          i <= Len(db'.works) /\ db'.works[i].arxiv_id = db.works[i].arxiv_id
     /\ UpsertRan =>
          LET held == RowsWithId(tx.works, loc.work.arxiv_id)
          IN /\ loc'.work_id \in 1..Len(tx'.works)
             /\ tx'.works[loc'.work_id].arxiv_id = loc.work.arxiv_id
             /\ held # {} => held = {loc'.work_id} /\ Len(tx'.works) = Len(tx.works)
             /\ held = {} => loc'.work_id = Len(tx.works) + 1
                              /\ Len(tx'.works) = Len(tx.works) + 1
             /\ \A i \in 1..Len(tx.works) :
                  tx'.works[i].arxiv_id = tx.works[i].arxiv_id]_vars

\* a second upsert of an identifier that a committed row holds has returned
\* that row's key, in a registry of two works
C1_Witness ==
  /\ pc = "insert_result"
  /\ Len(tx.works) = 2
  /\ loc.work_id <= Len(db.works)
  /\ db.works[loc.work_id].arxiv_id = loc.work.arxiv_id
  /\ tx.works[loc.work_id].last_seen_at = now_iso

\* C2: no step takes the DOI, comment, abstract-page link or document link of
\* a Work from a value to null, and an upsert whose record has no value for
\* one of them leaves the stored value of that column as it was.
C2_NeverNulled ==
  [][/\ \A i \in 1..Len(db.works) :
          i <= Len(db'.works) /\ NoNulling(db.works[i], db'.works[i])
     /\ UpsertRan =>
          \A i \in 1..Len(tx.works) :
             /\ NoNulling(tx.works[i], tx'.works[i])
             /\ i = loc'.work_id =>
                  \A f \in Sticky :
                     loc.work[f] = NULL => tx'.works[i][f] = tx.works[i][f]]_vars

\* a record without DOI, comment and links has been upserted into a Work that
\* has all of them
C2_Witness ==
  /\ UpsertReturned
  /\ \A f \in Sticky : loc.work[f] = NULL /\ tx.works[loc.work_id][f] # NULL
  /\ tx.works[loc.work_id].title = loc.work.title
  /\ loc.work_id <= Len(db.works)
  /\ db.works[loc.work_id].title # loc.work.title

\* C3: when upsert_work returns, the authorship rows of the Work are exactly
\* the names of the record, each at its first occurrence, at positions
\* 0..n-1; the same holds in the committed store for the latest upsert of
\* every Work.
C3_AuthorshipReplaced ==
  /\ UpsertReturned =>
       AuthorshipIs(tx, loc.work_id, FirstOccurrences(loc.work.authors, {}))
  /\ \A i \in 1..Len(db.works) :
       AuthorshipIs(db, i, FirstOccurrences(db.g_upserted[i].authors, {}))

\* a Work stored with the authors x, y has been upserted again with the list
\* y, y, x
C3_Witness ==
  /\ UpsertReturned
  /\ loc.work.authors = <<"y", "y", "x">>
  /\ \E a \in AuthorshipOf(db, loc.work_id) :
        a.position = 0 /\ db.authors[a.author_id] = "x"
  /\ \E a \in AuthorshipOf(tx, loc.work_id) :
        a.position = 0 /\ tx.authors[a.author_id] = "y"

\* C4: no two Works have the same non-null DOI, in the committed store and in
\* the view of the running command.
C4_DoiNullableUnique ==
  \A s \in {db, tx} :
     \A i, j \in 1..Len(s.works) :
        (i # j /\ s.works[i].doi # NULL) => s.works[i].doi # s.works[j].doi

\* two committed Works, the first with a DOI, the second without one although
\* its record carried the DOI of the first
C4_Witness ==
  /\ Len(db.works) = 2
  /\ db.works[1].doi # NULL
  /\ db.works[2].doi = NULL
  /\ db.g_upserted[2].doi = db.works[1].doi

\* C5: an upsert of a record whose DOI another Work holds raises nothing; the
\* Work is created or updated with the other fields of the record, its DOI is
\* what it was before (null for a new Work), and the other rows are unchanged.
\* (A failure of the store itself, "Error", is no error of the upsert.)
C5_DoiCollisionRecovered ==
  [][(/\ pc = "upsert_row"
      /\ loc.work.doi # NULL
      /\ \E j \in 1..Len(tx.works) :
            /\ tx.works[j].doi = loc.work.doi
            /\ tx.works[j].arxiv_id # loc.work.arxiv_id
      /\ ~(pc' = "idle" /\ out'.what = "Error"))
     => /\ pc' # "idle"
        /\ loc'.work_id \in 1..Len(tx'.works)
        /\ LET i == loc'.work_id
               w == loc.work
               new == tx'.works[i]
               fresh == i > Len(tx.works)
           IN /\ new.arxiv_id = w.arxiv_id
              /\ new.title = w.title
              /\ new.summary = w.summary
              /\ new.published = w.published
              /\ new.updated = w.updated
              /\ new.primary_category = w.primary_category
              /\ new.categories_json = JsonDumps(w.categories)
              /\ new.last_seen_at = now_iso
              /\ \A f \in {"comment", "abs_url", "pdf_url", "journal_ref"} :
                   new[f] = IF w[f] # NULL THEN w[f]
                            ELSE IF fresh THEN NULL ELSE tx.works[i][f]
              /\ new.doi = IF fresh THEN NULL ELSE tx.works[i].doi
              /\ new.doi # w.doi
              /\ Len(tx'.works) = IF fresh THEN Len(tx.works) + 1 ELSE Len(tx.works)
              /\ \A j \in 1..Len(tx.works) : j # i => tx'.works[j] = tx.works[j]]_vars

\* upsert_work has returned for a record whose DOI another Work holds: the
\* Work is there with the record's title and without that DOI
C5_Witness ==
  /\ UpsertReturned
  /\ loc.work.doi # NULL
  /\ tx.works[loc.work_id].doi = NULL
  /\ tx.works[loc.work_id].title = loc.work.title
  /\ \E j \in 1..Len(tx.works) : j # loc.work_id /\ tx.works[j].doi = loc.work.doi

\* the tables of a store without the schema marker
Tables(s) == [s EXCEPT !.schema_meta = {}]

\* the ranked results of a search
ResultsOf(s, search_id) == {r \in s.search_results : r.search_id = search_id}

\* nothing in the store is partly written: every search has its result_count
\* ranked results at the ranks 0..result_count-1, every ranked result and
\* every authorship row belongs to a stored search, work and author, and
\* every work has the whole authorship of its latest upsert
Complete(s) ==
  /\ \A k \in 1..Len(s.searches) :
       /\ Cardinality(ResultsOf(s, k)) = s.searches[k].result_count
       /\ {r.position : r \in ResultsOf(s, k)} = 0..(s.searches[k].result_count - 1)
  /\ \A r \in s.search_results :
       r.search_id \in 1..Len(s.searches) /\ r.work_id \in 1..Len(s.works)
  /\ \A a \in s.work_authors :
       a.work_id \in 1..Len(s.works) /\ a.author_id \in 1..Len(s.authors)
  /\ \A i \in 1..Len(s.works) :
       Cardinality(AuthorshipOf(s, i))
         = Len(FirstOccurrences(s.g_upserted[i].authors, {}))

\* the step that ends a command with an exception
Failed == pc # "idle" /\ pc' = "idle" /\ out'.kind = "exception"

\* the step that ends a command with its commit
Committed ==
  pc \in {"commit", "get_item"} /\ pc' = "idle" /\ out'.kind \in {"stored", "ok"}

\* C6: the committed store is never partly written, its tables change only in
\* the step that commits a command, and a command that fails after its fetch
\* leaves the tables as they were when it started and nothing pending on its
\* connection.
C6_SearchAllOrNothing ==
  [][/\ Complete(db')
     /\ Tables(db') = Tables(db) \/ (Committed /\ db' = tx)
     /\ Failed => Tables(db') = Tables(db) /\ tx' = db']_vars

\* a search has failed at the insert of a ranked result, after it logged the
\* fetch, inserted the query and upserted a work with its authors, and the
\* registry holds no row
C6_Witness ==
  /\ out.kind = "exception"
  /\ out.cmd = "search"
  /\ out.step = "insert_result"
  /\ pc = "idle"
  /\ Tables(db) = EmptyStore
  /\ tx = db

\* the step in which a search consults the cache (a search without --refresh
\* whose query is not blank)
CacheConsulted ==
  /\ pc = "idle"
  /\ now' = now /\ tz' = tz
  /\ out'.cmd = "search"
  /\ out'.kind \in {"hit", "running", "empty", "exception"}
  /\ "refresh" \in DOMAIN out'
  /\ ~out'.refresh

\* the stored searches whose parameters equal the request's
Matching(params) ==
  {i \in 1..Len(db.searches) : ParamsMatch(db.searches[i], params)}

\* the age of a stored search, both instants in UTC
Age(i) == now - db.g_stored_utc[i]

\* the matching searches stored at the latest instant
Latest(params) ==
  {i \in Matching(params) :
     \A j \in Matching(params) : db.g_stored_utc[j] <= db.g_stored_utc[i]}

\* C7, as the specification states it: a search without --refresh, when a search with
\* the same parameters was stored within the window, returns the entries of
\* such a search, fetches nothing and adds no row.
C7_FreshQueryReused ==
  [][(/\ CacheConsulted
      /\ out'.cache_ttl_s > 0
      /\ \E i \in Matching(out'.params) : Age(i) <= out'.cache_ttl_s)
     => /\ out'.kind = "hit"
        /\ ~out'.fetched
        /\ out'.search_id \in Matching(out'.params)
        /\ Age(out'.search_id) <= out'.cache_ttl_s
        /\ out'.entries
             = parse_arxiv_feed(EncodeUtf8(db.searches[out'.search_id].raw_xml))[2]
        /\ Tables(db') = Tables(db)
        /\ pc' = "idle"]_vars

C9_LatestMatchConsulted ==
  [][(CacheConsulted /\ out'.cache_ttl_s > 0) =>
       LET m == Matching(out'.params)
           last == Latest(out'.params)
       IN /\ out'.kind = "hit" => out'.search_id \in last
          /\ out'.kind # "hit" =>
               m = {} \/ \A i \in last : Age(i) > out'.cache_ttl_s]_vars

\* C10, as the specification states it: no step changes or removes a stored search or
\* ranked result, a new ranked result belongs to a new search, and a search
\* that fetched a well-formed response ends, unless the store itself fails,
\* with exactly one new search and its result_count ranked results.
C10_HistoryAppendOnly ==
  [][/\ Len(db.searches) <= Len(db'.searches)
     /\ \A k \in 1..Len(db.searches) : db'.searches[k] = db.searches[k]
     /\ db.search_results \subseteq db'.search_results
     /\ \A r \in db'.search_results \ db.search_results :
          r.search_id > Len(db.searches)
     /\ (/\ pc # "idle" /\ pc' = "idle" /\ loc.cmd = "search"
         /\ ~(out'.kind = "exception" /\ out'.what = "Error"))
        => /\ Len(db'.searches) = Len(db.searches) + 1
           /\ db'.searches[Len(db'.searches)].result_count = Len(loc.entries)
           /\ Cardinality(db'.search_results \ db.search_results)
                = Len(loc.entries)]_vars

\* C11: every stored search has one ranked result per entry of the response
\* it fetched, at the ranks 0..result_count-1 in the order of the response,
\* each with the base and the versioned identifier of the entry at its rank
\* and the key of the Work that holds that base identifier.
C11_RankedResultsFollowResponse ==
  \A k \in 1..Len(db.searches) :
     /\ db.searches[k].result_count = Len(db.g_body[k].entries)
     /\ Cardinality(ResultsOf(db, k)) = Len(db.g_body[k].entries)
     /\ \A p \in 1..Len(db.g_body[k].entries) :
          \E e \in {parse_arxiv_feed(db.g_body[k])[2][p]} :
             \E r \in ResultsOf(db, k) :
                /\ r.position = p - 1
                /\ r.arxiv_id = e.arxiv_id
                /\ r.arxiv_id_versioned = e.arxiv_id_versioned
                /\ r.work_id \in 1..Len(db.works)
                /\ db.works[r.work_id].arxiv_id = e.arxiv_id

\* a stored search of two entries that are two versions of one paper: ranks
\* 0 and 1 carry the two versioned identifiers and the same Work
C11_Witness ==
  \E k \in 1..Len(db.searches) :
     /\ db.searches[k].result_count = 2
     /\ \E r0, r1 \in ResultsOf(db, k) :
           /\ r0.position = 0 /\ r1.position = 1
           /\ r0.arxiv_id_versioned = <<"1", "v", "1">>
           /\ r1.arxiv_id_versioned = <<"1", "v", "2">>
           /\ r0.work_id = r1.work_id

\* the step in which a search reuses a stored search
Reused ==
  /\ pc = "idle"
  /\ now' = now /\ tz' = tz
  /\ out'.cmd = "search"
  /\ "search_id" \in DOMAIN out'
  /\ ~out'.fetched

\* C12, as the specification states it: a search that reuses a stored search
\* returns the summary counters and the records that parse_arxiv_feed gives
\* for the bytes that search had fetched.
C12_HitReplaysFetchedBytes ==
  [][Reused =>
       LET fetched == parse_arxiv_feed(db.g_body[out'.search_id])
       IN /\ out'.kind = "hit"
          /\ out'.meta = fetched[1]
          /\ out'.entries = fetched[2]]_vars

\* the step of get --ensure-key that asks for the key of work w and is not
\* cut short by a failure of the disk or an interrupt
KeyAsked(w) ==
  /\ \/ /\ pc = "get_item"
        /\ loc.i <= Len(loc.ids)
        /\ w = WorkByArxivId(tx.works, NormalizeArxivId(loc.ids[loc.i])[1])
     \/ pc = "get_payload" /\ w = loc.work_id
  /\ loc.ensure_key
  /\ w # 0
  /\ ~(out'.kind = "exception" /\ out'.what = "Error")

\* the key that the step returned: the citation_key of the line it printed
KeyReturned ==
  IF pc' = "get_item" /\ Len(loc'.lines) = Len(loc.lines) + 1
        /\ "citation_key" \in DOMAIN loc'.lines[Len(loc'.lines)]
  THEN loc'.lines[Len(loc'.lines)].citation_key
  ELSE <<>>

\* C13: a stored key is written once.  A key row of the registry file is
\* never changed or removed by any step, whatever upserts change the title,
\* authors or date of its work and whatever keys other works are given; a
\* command keeps the key rows it has written until it ends; and a call of
\* ensure_citation_key for a work that holds a key returns that key and
\* writes nothing.
C13_KeyWrittenOnce ==
  [][/\ db.citation_keys \subseteq db'.citation_keys
     /\ pc' # "idle" => tx.citation_keys \subseteq tx'.citation_keys
     /\ \A w \in 1..Len(tx.works) :
          KeyAsked(w) /\ KeyOf(tx, w) # <<>>
            => KeyReturned = KeyOf(tx, w) /\ tx' = tx]_vars

\* a get has returned the key of a work whose title, authors and date no
\* longer give the base key it was generated from, while another work holds
\* a key as well
C13_Witness ==
  /\ pc = "idle" /\ out.cmd = "get" /\ out.kind = "ok"
  /\ "work_id" \in DOMAIN out.lines[1]
  /\ \E r \in db.citation_keys :
       /\ out.lines[1].work_id = r.work_id
       /\ out.lines[1].citation_key = <<r.key>>
       /\ r.base_key # WorkBaseKey(db, r.work_id)
       /\ \E q \in db.citation_keys : q.work_id # r.work_id

\* C14: in the registry file and in the view of the running command, a work
\* has at most one citation key and no two works have the same key.
C14_KeysUnique ==
  \A s \in {db, tx} :
    \A r, q \in s.citation_keys :
       (r.work_id = q.work_id \/ r.key = q.key) => r = q

\* three works hold keys, two of them generated from the same base key
C14_Witness ==
  /\ Cardinality(db.citation_keys) >= 3
  /\ \E r, q \in db.citation_keys : r # q /\ r.base_key = q.base_key

\* C15, as the specification states it: whatever keys the other works hold,
\* a call of ensure_citation_key for a work of the registry does not fail,
\* and it returns and stores a key that no other work holds.
C15_KeyGenerationNeverFails ==
  [][\A w \in 1..Len(tx.works) :
       KeyAsked(w) =>
         /\ out'.kind # "exception"
         /\ KeyReturned # <<>>
         /\ KeyOf(tx', w) = KeyReturned
         /\ ~Taken(tx', KeyReturned[1], w)]_vars

\* C16, as the specification states it: a work whose derived base key is
\* that of a work holding a key is given a key, and the two keys differ.
C16_EqualBasesGetDistinctKeys ==
  [][\A w, u \in 1..Len(tx.works) :
       /\ KeyAsked(w)
       /\ u # w
       /\ KeyOf(tx, u) # <<>>
       /\ WorkBaseKey(tx, u) = WorkBaseKey(tx, w)
       => /\ KeyOf(tx', w) # <<>>
          /\ KeyOf(tx', w) # KeyOf(tx', u)]_vars

\* the text before the first comma of a name with a comma, and the last
\* space-separated token of a name without
C17_Surname(name) ==
  LET commas == {i \in 1..Len(name) : name[i] = ","}
      spaces == {i \in 1..Len(name) : name[i] = " "} \cup {0}
  IN IF commas # {}
     THEN SubSeq(name, 1, (CHOOSE i \in commas : \A j \in commas : i <= j) - 1)
     ELSE SubSeq(name, (CHOOSE i \in spaces : \A j \in spaces : i >= j) + 1, Len(name))

\* the letters a-z and digits of a text in lower case
C17_Alphanumerics(t) == SelectSeq([i \in 1..Len(t) |-> Lower(t[i])], IsKeyChar)

\* the four leading digits of a published date, "0000" without them
C17_Year(published) ==
  IF /\ published # NULL
     /\ Len(Chars(published)) >= 4
     /\ \A i \in 1..4 : IsDigit(Chars(published)[i])
  THEN SubSeq(Chars(published), 1, 4)
  ELSE <<"0", "0", "0", "0">>

\* the first maximal run of letters and digits of a title
C17_TitleRun(t) ==
  LET in == {i \in 1..Len(t) : IsTokenChar(t[i])}
      first == CHOOSE i \in in : \A j \in in : i <= j
      ends == {j \in first..Len(t) : \A k \in first..j : IsTokenChar(t[k])}
  IN IF in = {} THEN <<>>
     ELSE SubSeq(t, first, CHOOSE j \in ends : \A k \in ends : j >= k)

\* C17: the base key stored with the key of a work is made of the lower-case
\* alphanumerics of the first author's surname (nothing without an author),
\* the four leading digits of the published date or "0000", and the
\* lower-case alphanumerics of the first run of letters and digits of the
\* title.
C17_BaseKeyFormula ==
  \A r \in tx.citation_keys :
     LET names == NamesFrom(tx, r.work_id, 0)
         work == tx.works[r.work_id]
     IN r.base_key =
          C17_Alphanumerics(IF names = <<>> THEN <<>>
                            ELSE C17_Surname(Chars(names[1])))
            \o C17_Year(work.published)
            \o C17_Alphanumerics(C17_TitleRun(Chars(work.title)))

\* author "Doe, Jane", published 2023-05-01 and title "Scaling Transformers"
\* have given the base key doe2023scaling
C17_Witness ==
  \E r \in db.citation_keys :
     /\ NamesFrom(db, r.work_id, 0) = <<"Doe, Jane">>
     /\ db.works[r.work_id].published = "2023-05-01"
     /\ db.works[r.work_id].title = "Scaling Transformers"
     /\ r.base_key = <<"d", "o", "e", "2", "0", "2", "3",
                       "s", "c", "a", "l", "i", "n", "g">>

\* C18, as the specification states it: the key of a work without an author
\* whose title has no letter or digit is built from the base key "arxiv"
\* followed by the alphanumeric characters of the identifier.
C18_FallbackToIdentifier ==
  \A r \in tx.citation_keys :
     /\ NamesFrom(tx, r.work_id, 0) = <<>>
     /\ C17_TitleRun(Chars(tx.works[r.work_id].title)) = <<>>
     => r.base_key = <<"a", "r", "x", "i", "v">>
                       \o C17_Alphanumerics(tx.works[r.work_id].arxiv_id)

\* C19: every accepted shape of the identifier of a paper normalizes to the
\* base identifier of that paper.
C19_ShapesShareBase ==
  out.cmd = "normalize_arxiv_id" /\ out.kind = "ok" /\ loc.paper # <<>>
    => out.base = loc.paper[1]

\* the URL of the document of version 12 of an old-scheme paper, with .pdf,
\* a trailing slash and a query string, has been normalized
C19_Witness ==
  /\ out.cmd = "normalize_arxiv_id" /\ out.kind = "ok" /\ loc.paper # <<>>
  /\ out.value = PdfPrefix \o loc.paper[1] \o <<"v", "1", "2">> \o DotPdf
                   \o <<"/", "?", "v", "=", "1">>
  /\ out.base = <<"h", "-", "t", "/", "9">>
  /\ out.versioned = out.base \o <<"v", "1", "2">>

\* C20, as the specification states it: normalizing the base identifier that
\* normalize_arxiv_id returned gives that text back as base and as versioned
\* form.
C20_IdempotentOnBase ==
  out.cmd = "normalize_arxiv_id" /\ out.kind = "again"
    => out.base = out.value /\ out.versioned = out.value

\* the index after the characters of a key (neither white space nor a comma)
\* that start at index i
RECURSIVE C21_SkipKey(_, _)
C21_SkipKey(s, i) ==
  IF i <= Len(s) /\ ~IsSpace(s[i]) /\ s[i] # "," THEN C21_SkipKey(s, i + 1) ELSE i

\* the key token of a clause "@<type>{<key>," that starts at index i: its
\* first and last index, <<>> when no such clause starts there
C21_KeyTokenAt(s, i) ==
  LET b == SkipSpace(s, SkipWord(s, i + 1))
      k == SkipSpace(s, b + 1)
      e == C21_SkipKey(s, k)
      c == SkipSpace(s, e)
  IN IF /\ s[i] = "@"
        /\ SkipWord(s, i + 1) > i + 1
        /\ b <= Len(s) /\ s[b] = "{"
        /\ e > k
        /\ c <= Len(s) /\ s[c] = ","
     THEN <<k, e - 1>>
     ELSE <<>>

\* the indexes at which a clause "@<type>{<key>," starts
C21_Clauses(s) == {i \in 1..Len(s) : C21_KeyTokenAt(s, i) # <<>>}

\* C21, as the specification states it: rewrite_bibtex_key returns the text
\* unchanged when it has no clause "@<type>{<key>,", and otherwise the text
\* with the key token of the first such clause replaced by the new key and
\* every other character, the white space before the comma included, as it
\* was.
C21_OnlyKeyTokenReplaced ==
  out.cmd = "rewrite_bibtex_key" =>
    out.value =
      IF C21_Clauses(out.text) = {} THEN out.text
      ELSE Splice(out.text,
                  C21_KeyTokenAt(out.text,
                     CHOOSE i \in C21_Clauses(out.text) :
                        \A j \in C21_Clauses(out.text) : i <= j),
                  out.key)

\* the optional fields of a summary and of a record
C30_MetaFields == {"updated", "total_results", "items_per_page", "start_index"}

C30_EntryFields ==
  {"summary", "published", "updated", "comment", "journal_ref", "doi",
   "primary_category", "abs_url", "pdf_url"}

\* C30, as the specification states it: no optional field of the summary or
\* of a record that parse_arxiv_feed returns holds the empty string.
C30_NoEmptyOptional ==
  out.cmd = "parse_arxiv_feed" =>
    /\ \A f \in C30_MetaFields : out.meta[f] # <<<<>>>>
    /\ \A f \in C30_EntryFields : out.entry[f] # <<<<>>>>

\* C22: export-bibtex is idempotent on its destination: no identifier's
\* entry is appended to the destination a second time, neither by a later
\* run nor within one run that names the identifier twice
C22_ExportIdempotent ==
  \A i, j \in 1..Len(bib) : bib[i].g_arxiv_id = bib[j].g_arxiv_id => i = j

\* C23: every remote retrieval attempt of fetch-bibtex and export-bibtex adds
\* exactly one row to the fetch log: a step of the loop that calls fetch_url
\* leaves the log of the connection one row longer
C23_AttemptLogged ==
  [][(/\ pc \in {"bib_item", "bib_text"}
      /\ loc'.cmd = loc.cmd
      /\ loc'.g_attempts = loc.g_attempts + 1)
       => Len(tx'.fetches) = Len(tx.fetches) + 1]_vars

\* C24: a failure on one identifier of fetch-bibtex or export-bibtex is a
\* warning for that identifier and the loop goes on: the command never ends
\* with the parser's exception for a malformed response
C24_FailureIsWarning ==
  (out.cmd \in {"fetch-bibtex", "export-bibtex"} /\ out.kind = "exception")
    => out.what # "ParseError"

\* C25: a command other than init that is run on a registry without schema
\* ends at once and leaves the registry as it was, without schema, marker or
\* data row
C25_UninitializedUnchanged ==
  [][(~ensure_initialized(db) /\ out'.cmd # "init")
       => (db' = db /\ pc' = "idle")]_vars

\* C26: a search whose response is not well-formed ends with the parser's
\* exception and stores no Discovery Query, no Ranked Result and no Work, and
\* no stored Discovery Query was ever made from a malformed response
C26_MalformedStoresNothing ==
  [][/\ (out'.cmd = "search" /\ out'.kind = "exception" /\ out'.what = "ParseError")
          => /\ db'.searches = db.searches
             /\ db'.search_results = db.search_results
             /\ db'.works = db.works
             /\ db'.fetches = db.fetches
     /\ \A k \in 1..Len(tx'.g_body) : tx'.g_body[k].kind # "malformed"]_vars

\* a search on a registry that holds a Discovery Query ended with ParseError
C26_Witness ==
  /\ out.cmd = "search" /\ out.kind = "exception" /\ out.what = "ParseError"
  /\ db.searches # <<>>

\* C27: a Work has at most one citation-text entry; a fetch for a Work that
\* has an entry and no --refresh returns the cached text without calling the
\* remote; a fetch that stores a text replaces the entry of the Work by one
\* with the new text, source URL, hash and timestamp
C27_OneEntryPerWork ==
  [][/\ \A r1, r2 \in tx'.bibtex : r1.work_id = r2.work_id => r1 = r2
     /\ (/\ pc = "bib_text" /\ pc' = "bib_item"
         /\ CachedBibtex(tx, loc.work_id) # <<>> /\ ~loc.refresh)
          => /\ loc'.g_attempts = loc.g_attempts
             /\ tx'.bibtex = tx.bibtex
             /\ tx'.fetches = tx.fetches
     /\ (pc = "bib_text" /\ Len(tx'.fetches) > Len(tx.fetches))
          => \E f \in {tx'.fetches[Len(tx'.fetches)]} :
               tx'.bibtex =
                 {r \in tx.bibtex : r.work_id # loc.work_id}
                   \cup {[work_id |-> loc.work_id, fetched_at |-> f.fetched_at,
                           source_url |-> f.url, sha256 |-> f.sha256,
                           bibtex |-> BibtexText(f.sha256[2])]}]_vars

\* a --refresh has replaced the committed entry of a Work by one with another
\* text, hash and timestamp
C27_Witness ==
  /\ pc = "bib_item" /\ loc.cmd = "fetch-bibtex" /\ loc.refresh
  /\ \E r \in tx.bibtex, q \in db.bibtex :
       /\ r.work_id = q.work_id
       /\ r.fetched_at # q.fetched_at
       /\ r.bibtex # q.bibtex
       /\ r.sha256 # q.sha256

\* C28: a write that finds the lock held does not fail at once: it fails
\* only when the lock is held and the busy handler has slept busy_timeout
\* seconds, it succeeds whenever it finds the lock free, and it never sleeps
\* longer than busy_timeout
C28_BoundedRetry ==
  [][/\ (pc = "write" /\ out'.kind = "exception")
          => (lock = "other" /\ loc.waited = busy_timeout)
     /\ (pc = "write" /\ lock = "free" /\ pc' # "write")
          => (db' = init_schema(db) /\ out'.kind # "exception")
     /\ pc' = "write" => loc'.waited <= busy_timeout]_vars

\* init has succeeded after its busy handler slept
C28_Witness == out.cmd = "init" /\ out.kind = "ok" /\ out.waited > 0

\* C29: every command invocation eventually terminates
C29_Terminates == (pc # "idle") ~> (pc = "idle")

\* C31: schema creation is idempotent: init, and the start of every command
\* that creates the schema, on an initialized registry leave every table as
\* it was, and the registry holds exactly one schema-version marker
C31_SchemaCreationIdempotent ==
  [][/\ (/\ pc = "idle" /\ ensure_initialized(db)
         /\ out'.kind \in {"ok", "running"}
         /\ out'.cmd \in {"init", "search", "get"})
          => db' = db
     /\ ensure_initialized(db')
          => Cardinality({r \in db'.schema_meta : r.key = "schema_version"}) = 1]_vars

\* init has run on a registry that holds Works and a Discovery Query
C31_Witness ==
  /\ out.cmd = "init" /\ out.kind = "ok"
  /\ db.works # <<>> /\ db.searches # <<>> /\ db.fetches # <<>>

\* the last six digits of an identifier, all of them when it has fewer, and
\* the work id when it has none
C32_Digits(arxiv_id, w) ==
  LET digits == SelectSeq(arxiv_id, IsDigit)
      n == Len(digits)
  IN IF n = 0 THEN Str(w)
     ELSE [i \in 1..(IF n < 6 THEN n ELSE 6) |-> digits[n - (IF n < 6 THEN n ELSE 6) + i]]

\* another work holds the key
C32_HeldByOther(s, key, w) ==
  \E r \in s.citation_keys : r.key = key /\ r.work_id # w

\* C32: a call of ensure_citation_key for a work without a key gives it the
\* bare base key when no other work holds it, else the base key followed by
\* the last six digits of its identifier when no other work holds that, else
\* the base key followed by its work id; the keys that works hold stay
C32_CollisionPolicy ==
  [][\A w \in 1..Len(tx.works) :
       (KeyAsked(w) /\ KeyOf(tx, w) = <<>>) =>
         \E base \in {WorkBaseKey(tx, w)} :
           \E second \in {base \o C32_Digits(tx.works[w].arxiv_id, w)} :
             /\ KeyOf(tx', w) =
                  <<IF ~C32_HeldByOther(tx, base, w) THEN base
                    ELSE IF ~C32_HeldByOther(tx, second, w) THEN second
                         ELSE base \o Str(w)>>
             /\ \A r \in tx.citation_keys : r \in tx'.citation_keys]_vars

\* C33: no two Author rows have the same name; a turn of the author loop of
\* an upsert leaves the Authors as they are when one of them has exactly the
\* name and adds one Author with the name otherwise; and no step changes or
\* removes an Author of the registry file
C33_AuthorsByExactName ==
  [][/\ \A i, j \in 1..Len(tx'.authors) :
          tx'.authors[i] = tx'.authors[j] => i = j
     /\ \A i \in 1..Len(db.authors) :
          i <= Len(db'.authors) /\ db'.authors[i] = db.authors[i]
     /\ (pc = "upsert_author" /\ pc' # "idle")
          => \E name \in {loc.work.authors[loc.ai]} :
               tx'.authors =
                 IF \E i \in 1..Len(tx.authors) : tx.authors[i] = name
                 THEN tx.authors
                 ELSE Append(tx.authors, name)]_vars

\* two Works of the registry share one of its two Authors
C33_Witness ==
  /\ Len(db.authors) >= 2
  /\ \E a, b \in db.work_authors :
       a.author_id = b.author_id /\ a.work_id # b.work_id

\* C34: when ensure_work returns a work id to fetch-bibtex or export-bibtex,
\* the Work with that id has the identifier that was asked for
C34_EnsuredWorkIsRequested ==
  [][(pc # "bib_text" /\ pc' = "bib_text")
       => tx'.works[loc'.work_id].arxiv_id = BibId(loc')]_vars

\* C35: a citation-text entry is written only from a response received with
\* a success status: the logged fetch it was stored from has status 200
C35_StoredFromSuccess ==
  \A r \in tx.bibtex :
    \A k \in 1..Len(tx.fetches) :
      (/\ tx.fetches[k].kind = "arxiv_bibtex"
       /\ tx.fetches[k].url = r.source_url
       /\ tx.fetches[k].sha256 = r.sha256
       /\ tx.fetches[k].fetched_at = r.fetched_at)
        => tx.fetches[k].status = <<200>>

\* every citation key of the destination file is held in the registry s
C36_FileKeysHeld(file, s) ==
  \A key \in existing_bibtex_keys(file) :
    \E r \in s.citation_keys : r.key = key

\* C36: when an export-bibtex invocation ends, by its commit or by an
\* exception of its own, every citation key it has written to the
\* destination file is a key that the registry file holds
C36_FileKeysPersisted ==
  [][(/\ pc # "idle" /\ pc' = "idle"
      /\ loc.cmd = "export-bibtex"
      /\ ~(out'.kind = "exception" /\ out'.what = "Error")
      /\ C36_FileKeysHeld(bib, tx))
       => C36_FileKeysHeld(bib', db')]_vars

\* C37: when two invocations generate keys for two Works with the same base
\* key side by side, the registry file never holds one key on both Works,
\* and an invocation that has failed has written no key for its Work
C37_RaceKeepsKeysDistinct ==
  /\ \A r, q \in db.citation_keys : r.key = q.key => r = q
  /\ pc = "race" =>
       \A p \in Procs :
         loc.procs[p].at = "failed" => KeyOf(db, loc.procs[p].work_id) = <<>>

\* both invocations chose the same candidate; one has committed it and the
\* other has failed
C37_Witness ==
  /\ pc = "race"
  /\ loc.procs["A"].cand.key = loc.procs["B"].cand.key
  /\ loc.procs["A"].cand.key # <<>>
  /\ \E p, q \in Procs :
       /\ loc.procs[p].at = "done" /\ loc.procs[q].at = "failed"
       /\ KeyOf(db, loc.procs[p].work_id) = <<loc.procs[p].cand.key>>

\* C38: when a refresh of the citation text of a Work fails (the transport
\* fails or the body is empty: the remote was called and nothing was logged),
\* the cached entry of the Work is left as it was: text, source URL, hash and
\* timestamp unchanged, and no other entry changes
C38_FailedRefreshKeepsEntry ==
  [][(/\ pc = "bib_text" /\ loc.refresh
      /\ CachedBibtex(tx, loc.work_id) # <<>>
      /\ pc' = "bib_item"
      /\ loc'.g_attempts > loc.g_attempts
      /\ tx'.fetches = tx.fetches)
       => /\ {r \in tx'.bibtex : r.work_id = loc.work_id}
               = {r \in tx.bibtex : r.work_id = loc.work_id}
          /\ tx'.bibtex = tx.bibtex
          /\ Len(loc'.warnings) = Len(loc.warnings) + 1]_vars

\* a --refresh of a Work whose text is cached has ended with the warning of
\* an empty body and the entry of the Work is the committed one
C38_Witness ==
  /\ pc = "bib_item" /\ loc.cmd = "fetch-bibtex" /\ loc.refresh
  /\ loc.warnings # <<>>
  /\ loc.warnings[Len(loc.warnings)].what = "empty BibTeX"
  /\ db.bibtex # {}
  /\ tx.bibtex = db.bibtex

====
